---- MODULE Spec2Model ----
(***************************************************************************)
(* A model of kpath1999/sting-sense-map:                                   *)
(*   - the Express request handlers of server.js (both versions held in    *)
(*     the file: the AI Gateway server, lines 1-187, and the Groq server,  *)
(*     lines 188-314), with their process-local response cache;            *)
(*   - the raw-mode token calculator (calculate_raw_mode_tokens.js, held   *)
(*     in unnamed/part_000): compressDataset, simulateChunking and         *)
(*     calculateTokensForQuestion;                                         *)
(*   - the raw-mode orchestrator processRawMode, which README.md           *)
(*     documents and whose code is not among the sources.                  *)
(* Each part has its own specification over the shared variables.          *)
(***************************************************************************)
EXTENDS Integers, Sequences, FiniteSets, TLC

VARIABLES
    app,            \* which server.js version this process runs
    hasApiKey,      \* whether process.env holds the completion-service key
    responseCache,  \* const responseCache = new Map()
    requests,       \* every request received so far, with its handler state
    busData,        \* the dataset handed to the token calculator
    chunkingResult, \* what simulateChunking returned
    question,       \* the question of calculateTokensForQuestion
    results,        \* the results object calculateTokensForQuestion builds
    pc,             \* position inside calculateTokensForQuestion
    raw,            \* state of one processRawMode request
    call            \* one call of a pure function: its arguments and result

vars == <<app, hasApiKey, responseCache, requests, busData, chunkingResult,
          question, results, pc, raw, call>>
serverVars == <<app, hasApiKey, responseCache, requests>>
calcVars == <<busData, chunkingResult, question, results, pc>>

Min(a, b) == IF a < b THEN a ELSE b
Max(a, b) == IF a > b THEN a ELSE b

(***************************************************************************)
(* JavaScript values and strings.  A string is a sequence of characters;   *)
(* a request's prompt is any JSON value, tagged with its typeof.           *)
(***************************************************************************)
Str(s) == [type |-> "string", str |-> s, num |-> 0]
Undefined == [type |-> "undefined", str |-> <<>>, num |-> 0]
Num(n) == [type |-> "number", str |-> <<>>, num |-> n]

IsWhitespace(c) == c \in {" ", "\n"}

\* String.prototype.trim
RECURSIVE TrimStart(_)
TrimStart(s) ==
    IF s # <<>> /\ IsWhitespace(Head(s)) THEN TrimStart(Tail(s)) ELSE s

RECURSIVE TrimEnd(_)
TrimEnd(s) ==
    IF s # <<>> /\ IsWhitespace(s[Len(s)])
    THEN TrimEnd(SubSeq(s, 1, Len(s) - 1))
    ELSE s

Trim(s) == TrimEnd(TrimStart(s))

\* String.prototype.toLowerCase, on the letters A to Z
UpperCaseLetters ==
    << "A", "B", "C", "D", "E", "F", "G", "H", "I", "J", "K", "L", "M", "N",
       "O", "P", "Q", "R", "S", "T", "U", "V", "W", "X", "Y", "Z" >>
LowerCaseLetters ==
    << "a", "b", "c", "d", "e", "f", "g", "h", "i", "j", "k", "l", "m", "n",
       "o", "p", "q", "r", "s", "t", "u", "v", "w", "x", "y", "z" >>
LowerChar(c) ==
    IF \E i \in 1..Len(UpperCaseLetters) : UpperCaseLetters[i] = c
    THEN LowerCaseLetters[CHOOSE i \in 1..Len(UpperCaseLetters) : UpperCaseLetters[i] = c]
    ELSE c
ToLowerCase(s) == [i \in 1..Len(s) |-> LowerChar(s[i])]

\* JavaScript truthiness: !prompt is true of undefined, 0 and ""
Truthy(v) ==
    CASE v.type = "undefined" -> FALSE
      [] v.type = "number" -> v.num # 0
      [] v.type = "string" -> Len(v.str) > 0
      [] OTHER -> TRUE

(***************************************************************************)
(* server.js                                                               *)
(***************************************************************************)
MaxRequests == 2

\* The prompts a client may send
PromptValues ==
    { Undefined, Num(7), Str(<<>>), Str(<<" ">>),
      Str(<<"a">>), Str(<<" ", "A", " ">>), Str(<<"b">>) }

\* What the completion service may generate
Replies == {"r1", "r2"}
\* Statuses of a non-OK upstream HTTP response
UpstreamErrorStatuses == {429, 503}

\* The two versions of server.js: the AI Gateway server and the Groq server
ServerVersions == {"gateway", "groq"}

Endpoints(a) ==
    IF a = "gateway" THEN {"summary", "insight"} ELSE {"summary"}

\* maxTokens / max_tokens of the completion call
MaxTokensSummary == 500
MaxTokensInsight == 150
maxTokens(ep) == IF ep = "summary" THEN MaxTokensSummary ELSE MaxTokensInsight

\* Messages a thrown error may carry
ErrorMessages == {"m1", "m2"}
\* Error payloads of a non-OK upstream HTTP response
UpstreamErrorPayloads == {"e1", "e2"}

\* The JSON document a completion call yields: a completion generated under
\* a max_tokens limit, or the error document of a non-OK response
NoData == [kind |-> "none", content |-> "", maxTokens |-> 0]
Completion(reply, limit) ==
    [kind |-> "completion", content |-> reply, maxTokens |-> limit]
ErrorDocument(payload) == [kind |-> "error", content |-> payload, maxTokens |-> 0]

\* Response bodies: { error, message, details } or the data of res.json(data)
DataBody(d) == [error |-> "", message |-> "", details |-> "", data |-> d]
ErrorBody(e, m) == [error |-> e, message |-> m, details |-> "", data |-> NoData]
ErrorBodyWithDetails(e, d) ==
    [error |-> e, message |-> "", details |-> d, data |-> NoData]
NoBody == ErrorBody("", "")

ValidationError ==
    ErrorBody("Invalid prompt. Please provide a non-empty string.", "")
ConfigError(a, ep) ==
    IF ep = "summary"
    THEN ErrorBody("API configuration error", "Please contact the administrator")
    ELSE ErrorBody("API configuration error", "")
UpstreamError ==
    ErrorBody("Unable to generate response", "Please try again later")
UnavailableError(a, ep) ==
    IF ep = "summary"
    THEN ErrorBody("Service temporarily unavailable", "Please try again later")
    ELSE ErrorBody("Service temporarily unavailable", "")

\* validateRequest: TRUE when next() is called
\* (variant: without the trim() test)
validateRequest_NoTrim(prompt) ==
    ~ ( ~Truthy(prompt) \/ prompt.type # "string" )
validateRequest(prompt) ==
    ~ ( ~Truthy(prompt)
        \/ prompt.type # "string"
        \/ Len(Trim(prompt.str)) = 0 )

\* generateCacheKey (variant: without toLowerCase())
generateCacheKey_NoLower(prompt) == Trim(prompt.str)
generateCacheKey(prompt) == ToLowerCase(Trim(prompt.str))

CacheHas(key) == key \in DOMAIN responseCache
\* (variants: the map is cleared before the entry is set; the entry is set
\* under the key of the empty prompt)
CacheSet_Evicting(key, data) == [k \in {key} |-> data]
CacheSet_FixedKey(key, data) ==
    [k \in DOMAIN responseCache \cup {<< >>} |->
        IF k = << >> THEN data ELSE responseCache[k]]
CacheSet(key, data) ==
    [k \in DOMAIN responseCache \cup {key} |->
        IF k = key THEN data ELSE responseCache[k]]

\* The requests already answered with a success status
AnsweredOK ==
    {j \in 1..Len(requests) : requests[j].pc = "done" /\ requests[j].status = 200}

NewRequest(ep, prompt) ==
    [ ep |-> ep, prompt |-> prompt, pc |-> "done", status |-> 0, body |-> NoBody,
      responses |-> 0, cacheLookups |-> 0, cacheWrites |-> 0, serviceCalls |-> 0,
      source |-> "none", upstreamStatus |-> 0, answeredBefore |-> AnsweredOK ]

Respond(r, status, body) ==
    [r EXCEPT !.pc = "done", !.status = status, !.body = body,
              !.responses = r.responses + 1]

FirstAwait(a) == IF a = "gateway" THEN "streamText" ELSE "fetch"

\* app.post(path, validateRequest, async handler), up to the handler's first await
\* (variant: without the test of the API key)
HandlePost_NoKeyCheck(a, ep, prompt) ==
    LET r == NewRequest(ep, prompt) IN
    IF ~validateRequest(prompt)
    THEN Respond(r, 400, ValidationError)
    ELSE LET cacheKey == generateCacheKey(prompt)
             looked == [r EXCEPT !.cacheLookups = 1]
         IN  IF CacheHas(cacheKey)
             THEN Respond([looked EXCEPT !.source = "cache"], 200,
                          DataBody(responseCache[cacheKey]))
             ELSE [looked EXCEPT !.pc = FirstAwait(a), !.serviceCalls = 1]
HandlePost(a, ep, prompt) ==
    LET r == NewRequest(ep, prompt) IN
    IF ~validateRequest(prompt)
    THEN Respond(r, 400, ValidationError)
    ELSE LET cacheKey == generateCacheKey(prompt)
             looked == [r EXCEPT !.cacheLookups = 1]
         IN  IF CacheHas(cacheKey)
             THEN Respond([looked EXCEPT !.source = "cache"], 200,
                          DataBody(responseCache[cacheKey]))
             ELSE IF ~hasApiKey
             THEN Respond(looked, 500, ConfigError(a, ep))
             ELSE [looked EXCEPT !.pc = FirstAwait(a), !.serviceCalls = 1]

Post(ep, prompt) ==
    /\ Len(requests) < MaxRequests
    /\ app \in ServerVersions
    /\ ep \in Endpoints(app)
    /\ requests' = Append(requests, HandlePost(app, ep, prompt))
    /\ UNCHANGED <<app, hasApiKey, responseCache, calcVars, raw, call>>

\* The catch block of a handler
\* (variant: the call is issued once more before the failure is answered)
\* (variant: the failure is logged and no response is sent)
Catch_NoResponse(r) == [r EXCEPT !.pc = "done"]
Catch_Retry(r) ==
    IF r.serviceCalls < 2
    THEN [r EXCEPT !.pc = FirstAwait(app), !.serviceCalls = r.serviceCalls + 1]
    ELSE Respond(r, 500, UnavailableError(app, r.ep))
Catch(r) == Respond(r, 500, UnavailableError(app, r.ep))

\* The success tail of a handler: responseCache.set(cacheKey, data); res.json(data)
CacheAndRespond(i, data) ==
    LET r == requests[i] IN
    /\ responseCache' = CacheSet(generateCacheKey(r.prompt), data)
    /\ requests' = [requests EXCEPT ![i] =
           Respond([r EXCEPT !.cacheWrites = r.cacheWrites + 1,
                             !.source = "service"], 200, DataBody(data))]

\* AI Gateway server: await streamText(...) resolves
StreamTextResolves(i) ==
    /\ requests[i].pc = "streamText"
    /\ requests' = [requests EXCEPT ![i].pc = "textStream"]
    /\ UNCHANGED <<app, hasApiKey, responseCache, calcVars, raw, call>>

\* AI Gateway server: the stream is read to its end, usage and finishReason resolve
StreamCompletes(i, reply) ==
    /\ requests[i].pc = "textStream"
    /\ CacheAndRespond(i, Completion(reply, maxTokens(requests[i].ep)))
    /\ UNCHANGED <<app, hasApiKey, calcVars, raw, call>>

\* AI Gateway server: streamText, the stream, usage or finishReason throws
StreamThrows(i) ==
    /\ requests[i].pc \in {"streamText", "textStream"}
    /\ requests' = [requests EXCEPT ![i] = Catch(requests[i])]
    /\ UNCHANGED <<app, hasApiKey, responseCache, calcVars, raw, call>>

\* Groq server: await fetch(...) resolves with an HTTP response
FetchResolves(i, status) ==
    /\ requests[i].pc = "fetch"
    /\ requests' = [requests EXCEPT ![i].pc = "json", ![i].upstreamStatus = status]
    /\ UNCHANGED <<app, hasApiKey, responseCache, calcVars, raw, call>>

\* Groq server: await response.json() resolves
JsonResolves(i, reply) ==
    /\ requests[i].pc = "json"
    /\ IF requests[i].upstreamStatus # 200
       THEN /\ requests' = [requests EXCEPT ![i] =
                   Respond(requests[i], requests[i].upstreamStatus, UpstreamError)]
            /\ UNCHANGED responseCache
       ELSE CacheAndRespond(i, Completion(reply, maxTokens(requests[i].ep)))
    /\ UNCHANGED <<app, hasApiKey, calcVars, raw, call>>

\* Groq server: fetch rejects, or response.json() throws
FetchThrows(i) ==
    /\ requests[i].pc \in {"fetch", "json"}
    /\ requests' = [requests EXCEPT ![i] = Catch(requests[i])]
    /\ UNCHANGED <<app, hasApiKey, responseCache, calcVars, raw, call>>

(***************************************************************************)
(* api/index.js and the legacy server (unnamed/part_002): one POST         *)
(* /api/generate-summary handler each, without validateRequest and without *)
(* a cache.  Their completion calls set no max_tokens (modelled as 0).     *)
(***************************************************************************)
\* The prompts sent to these handlers, which never inspect them
ApiPromptValues == { Undefined, Str(<<"a">>) }

\* The JSON documents an upstream response of the given status may carry
UpstreamDocuments(status) ==
    IF status = 200
    THEN { Completion(reply, 0) : reply \in Replies }
    ELSE { ErrorDocument(payload) : payload \in UpstreamErrorPayloads }

\* res.json(data): the body is the upstream document itself
RelayedBody(doc) == [DataBody(doc) EXCEPT !.error = IF doc.kind = "error"
                                                   THEN doc.content ELSE ""]

ApiFailedError == ErrorBody("Failed to generate summary", "")
LegacyKeyError == ErrorBody("API key not configured", "")
LegacyUpstreamError(errorData) ==
    ErrorBodyWithDetails("Groq API request failed", errorData)
LegacyFailedError(message) ==
    ErrorBodyWithDetails("Failed to generate summary", message)

\* api/index.js: the handler up to await fetch(...)
PostApi(prompt) ==
    /\ Len(requests) < MaxRequests
    /\ app = "api"
    /\ requests' = Append(requests,
           [NewRequest("summary", prompt) EXCEPT !.pc = "apiFetch",
                                               !.serviceCalls = 1])
    /\ UNCHANGED <<app, hasApiKey, responseCache, calcVars, raw, call>>

\* api/index.js: await fetch(...) resolves with an HTTP response
ApiFetchResolves(i, status) ==
    /\ requests[i].pc = "apiFetch"
    /\ requests' = [requests EXCEPT ![i].pc = "apiJson",
                                    ![i].upstreamStatus = status]
    /\ UNCHANGED <<app, hasApiKey, responseCache, calcVars, raw, call>>

\* api/index.js: await response.json() resolves; res.json(data)
ApiJsonResolves(i, doc) ==
    /\ requests[i].pc = "apiJson"
    /\ doc \in UpstreamDocuments(requests[i].upstreamStatus)
    /\ requests' = [requests EXCEPT ![i] =
           Respond([requests[i] EXCEPT !.source = "service"], 200,
                   RelayedBody(doc))]
    /\ UNCHANGED <<app, hasApiKey, responseCache, calcVars, raw, call>>

\* api/index.js: fetch rejects or response.json() throws; the catch block
ApiThrows(i) ==
    /\ requests[i].pc \in {"apiFetch", "apiJson"}
    /\ requests' = [requests EXCEPT ![i] = Respond(requests[i], 500, ApiFailedError)]
    /\ UNCHANGED <<app, hasApiKey, responseCache, calcVars, raw, call>>

\* Legacy server: the handler up to await fetch(...)
PostLegacy(prompt) ==
    /\ Len(requests) < MaxRequests
    /\ app = "legacy"
    /\ requests' = Append(requests,
           IF ~hasApiKey
           THEN Respond(NewRequest("summary", prompt), 500, LegacyKeyError)
           ELSE [NewRequest("summary", prompt) EXCEPT !.pc = "legacyFetch",
                                                    !.serviceCalls = 1])
    /\ UNCHANGED <<app, hasApiKey, responseCache, calcVars, raw, call>>

\* Legacy server: await fetch(...) resolves with an HTTP response
LegacyFetchResolves(i, status) ==
    /\ requests[i].pc = "legacyFetch"
    /\ requests' = [requests EXCEPT ![i].pc = "legacyJson",
                                    ![i].upstreamStatus = status]
    /\ UNCHANGED <<app, hasApiKey, responseCache, calcVars, raw, call>>

\* Legacy server: await response.json() resolves, in the !response.ok branch
\* or after it
LegacyJsonResolves(i, doc) ==
    /\ requests[i].pc = "legacyJson"
    /\ doc \in UpstreamDocuments(requests[i].upstreamStatus)
    /\ requests' = [requests EXCEPT ![i] =
           IF requests[i].upstreamStatus # 200
           THEN Respond(requests[i], requests[i].upstreamStatus,
                        LegacyUpstreamError(doc.content))
           ELSE Respond([requests[i] EXCEPT !.source = "service"], 200,
                        RelayedBody(doc))]
    /\ UNCHANGED <<app, hasApiKey, responseCache, calcVars, raw, call>>

\* Legacy server: fetch rejects or response.json() throws; the catch block
LegacyThrows(i, message) ==
    /\ requests[i].pc \in {"legacyFetch", "legacyJson"}
    /\ requests' = [requests EXCEPT ![i] =
           Respond(requests[i], 500, LegacyFailedError(message))]
    /\ UNCHANGED <<app, hasApiKey, responseCache, calcVars, raw, call>>

(***************************************************************************)
(* server.js: the GET routes.  Express hands a request to the middleware   *)
(* and routes in the order of their registration and stops at the first    *)
(* that answers.                                                           *)
(***************************************************************************)
\* The paths a client may GET, and the files the public directory may hold
GetPaths == {"/", "/api/health", "/index.html", "/app.js", "/missing"}
PublicFileNames == {"/index.html", "/app.js"}

\* app.use(express.static('public')), app.get(path, handler) in the order
\* server.js registers them
Routes(a) ==
    IF a = "gateway"
    THEN << [kind |-> "static", path |-> "", handler |-> "static"],
            [kind |-> "get", path |-> "*", handler |-> "page"],
            [kind |-> "get", path |-> "/api/health", handler |-> "health"] >>
    ELSE << [kind |-> "static", path |-> "", handler |-> "static"],
            [kind |-> "get", path |-> "/", handler |-> "page"],
            [kind |-> "get", path |-> "/api/health", handler |-> "health"] >>

\* The file express.static looks up for a path: index.html for a directory
StaticFile(path) == IF path = "/" THEN "/index.html" ELSE path

\* Whether a route answers the request, or calls next()
RouteAnswers(route, path, publicFiles) ==
    IF route.kind = "static" THEN StaticFile(path) \in publicFiles
    ELSE route.path = "*" \/ route.path = path

NoGetAnswer == [handler |-> "none", status |-> 0, json |-> FALSE, jsonStatus |-> ""]

\* What a handler sends: the static file; the page of res.sendFile, whose
\* error goes to the error-handling middleware when the file is missing;
\* the health document
Answer(a, handler, pageExists) ==
    CASE handler = "static" ->
             [handler |-> "static", status |-> 200, json |-> FALSE, jsonStatus |-> ""]
      [] handler = "page" ->
             IF pageExists
             THEN [handler |-> "page", status |-> 200, json |-> FALSE, jsonStatus |-> ""]
             ELSE [handler |-> "page", status |-> 500, json |-> TRUE, jsonStatus |-> ""]
      [] OTHER ->
             [handler |-> "health", status |-> 200, json |-> TRUE, jsonStatus |-> "ok"]

\* The page res.sendFile sends: public/index.html in the AI Gateway server,
\* index.html beside server.js in the Groq server
PageExists(a, publicFiles, rootIndex) ==
    IF a = "gateway" THEN "/index.html" \in publicFiles ELSE rootIndex

\* The answer of the first route that answers, or Express's 404
RECURSIVE Dispatch(_, _, _, _, _)
Dispatch(a, routes, path, publicFiles, rootIndex) ==
    IF routes = << >>
    THEN [handler |-> "none", status |-> 404, json |-> FALSE, jsonStatus |-> ""]
    ELSE IF RouteAnswers(Head(routes), path, publicFiles)
    THEN Answer(a, Head(routes).handler, PageExists(a, publicFiles, rootIndex))
    ELSE Dispatch(a, Tail(routes), path, publicFiles, rootIndex)

InitGetCall ==
    \E path \in GetPaths : \E publicFiles \in SUBSET PublicFileNames :
    \E rootIndex \in BOOLEAN :
        call = [ fn |-> "GET", state |-> "called", path |-> path,
                 publicFiles |-> publicFiles, rootIndex |-> rootIndex,
                 result |-> NoGetAnswer ]

\* One GET request is routed and answered
Get ==
    /\ call.fn = "GET"
    /\ call.state = "called"
    /\ call' = [call EXCEPT !.state = "returned",
                            !.result = Dispatch(app, Routes(app), call.path,
                                                call.publicFiles, call.rootIndex)]
    /\ UNCHANGED <<serverVars, calcVars, raw>>

(***************************************************************************)
(* calculate_raw_mode_tokens.js (unnamed/part_000)                         *)
(*                                                                         *)
(* A dataset is the array generateSimulatedData builds: recordCount        *)
(* records whose behavior, cluster and activity cycle through the fixed    *)
(* tables and whose coordinates are random numbers.  The text of a random  *)
(* coordinate has at most 18 characters; shortDigits is the number of      *)
(* characters by which the coordinate texts of the whole dataset fall      *)
(* short of that.  Texts are kept as slices [from, to) of the serialized   *)
(* dataset, so that substring and concatenation act on positions.          *)
(***************************************************************************)
RAW_SINGLE_REQUEST_CHAR_LIMIT == 11000
MAX_INPUT_TOKENS == 3000

MaxRecords == 1000
MaxSplitRecords == 300
MaxShortDigits == 26

behaviors == <<"Moderate", "Aggressive", "Calm">>
activities == <<"Moving", "Stopped", "Turning", "Accelerating", "Braking">>
clusters == <<"Klaus_Area", "Student_Center", "Tech_Square", "CRC_Zone",
              "Library_Quad">>

\* new Date(...).toISOString(), e.g. "2024-10-24T08:00:00.000Z"
TimestampChars == 24
\* the longest text of 33.775 + (Math.random() - 0.5) * 0.02 and of
\* -84.39 + (Math.random() - 0.5) * 0.02
LatMaxChars == 18
LonMaxChars == 18
\* the shortest such text ("33.77", "-84.4")
CoordMinChars == 5

\* The datasets of n records
Datasets(maxRecords, maxShort) ==
    { [recordCount |-> n, shortDigits |-> d] :
        n \in 0..maxRecords, d \in 0..maxShort }

ValidDataset(data) ==
    data.shortDigits <= data.recordCount * (LatMaxChars + LonMaxChars - 2 * CoordMinChars)

\* Number of characters of String(i), 0 <= i < 100000
DigitChars(i) ==
    IF i < 10 THEN 1 ELSE IF i < 100 THEN 2 ELSE IF i < 1000 THEN 3
    ELSE IF i < 10000 THEN 4 ELSE 5

\* Sum of DigitChars(i) over 0 <= i < n
DigitCharsBelow(n) ==
    n + Max(0, n - 10) + Max(0, n - 100) + Max(0, n - 1000) + Max(0, n - 10000)

RECURSIVE CharsOfFirst(_, _)
CharsOfFirst(table, k) ==
    IF k = 0 THEN 0 ELSE Len(table[k]) + CharsOfFirst(table, k - 1)

\* Sum of table[i % table.length].length over 0 <= i < n
CycleCharsBelow(table, n) ==
    (n \div Len(table)) * CharsOfFirst(table, Len(table))
        + CharsOfFirst(table, n % Len(table))

\* JSON.stringify(value, null, 2): number of characters of a string, of an
\* array and of an object, given the characters of their parts and the
\* nesting depth (two spaces of indentation per level)
JsonStringChars(valueChars) == valueChars + 2

RECURSIVE SumSeq(_)
SumSeq(s) == IF s = <<>> THEN 0 ELSE Head(s) + SumSeq(Tail(s))

JsonArrayChars(elemChars, depth) ==
    IF elemChars = <<>> THEN 2
    ELSE 2 + SumSeq(elemChars) + Len(elemChars) * 2 * (depth + 1)
           + 2 * (Len(elemChars) - 1) + 1 + 2 * depth + 1

JsonMemberChars(key, valueChars) == Len(key) + 2 + 2 + valueChars

JsonObjectChars(memberChars, depth) == JsonArrayChars(memberChars, depth)

\* compressDataset: the record { b, t, c, i, cl, a } of input record i.  Each
\* field is given as the number of characters of its JSON text; coordChars
\* is that of the two coordinates together.
compressRecord(i, latChars, lonChars) ==
    << JsonMemberChars("b", JsonStringChars(Len(behaviors[(i % Len(behaviors)) + 1]))),
       JsonMemberChars("t", JsonStringChars(TimestampChars)),
       JsonMemberChars("c", JsonArrayChars(<<latChars, lonChars>>, 2)),
       JsonMemberChars("i", DigitChars(i)),
       JsonMemberChars("cl", JsonStringChars(Len(clusters[(i % Len(clusters)) + 1]))),
       JsonMemberChars("a", JsonStringChars(Len(activities[(i % Len(activities)) + 1]))) >>

\* Characters of one serialized record whose variable texts are all empty
RecordFrameChars ==
    JsonObjectChars(
        << JsonMemberChars("b", JsonStringChars(0)),
           JsonMemberChars("t", JsonStringChars(0)),
           JsonMemberChars("c", JsonArrayChars(<<0, 0>>, 2)),
           JsonMemberChars("i", 0),
           JsonMemberChars("cl", JsonStringChars(0)),
           JsonMemberChars("a", JsonStringChars(0)) >>, 1)

\* Characters of the variable texts of all records of the dataset
ValueChars(data) ==
    LET n == data.recordCount IN
      CycleCharsBelow(behaviors, n) + n * TimestampChars
    + (n * (LatMaxChars + LonMaxChars) - data.shortDigits)
    + DigitCharsBelow(n) + CycleCharsBelow(clusters, n)
    + CycleCharsBelow(activities, n)

\* JSON.stringify(compressDataset(data), null, 2).length
SerializedLength(data) ==
    LET n == data.recordCount IN
    IF n = 0 THEN 2
    ELSE 2 + n * 2 + n * RecordFrameChars + ValueChars(data) + 2 * (n - 1) + 1 + 1

\* A text that is a slice of the serialized dataset
Slice(from, to) == [from |-> from, to |-> to]
Length(s) == s.to - s.from

\* String.prototype.substring(start, end)
\* (variant: substr(start, length))
Substring_AsSubstr(s, start, end) ==
    LET a == Min(Max(start, 0), Length(s))
        b == Min(a + Max(end, 0), Length(s))
    IN  Slice(s.from + a, s.from + b)
Substring(s, start, end) ==
    LET a == Min(Max(start, 0), Length(s))
        b == Min(Max(end, 0), Length(s))
    IN  Slice(s.from + Min(a, b), s.from + Max(a, b))

\* Concatenation of texts: the slices in order, empty ones dropped and
\* slices that continue each other joined
RECURSIVE Concat(_)
Concat(texts) ==
    IF texts = <<>> THEN <<>>
    ELSE LET rest == Concat(Tail(texts))
             h == Head(texts)
         IN  IF Length(h) = 0 THEN rest
             ELSE IF rest # <<>> /\ Head(rest).from = h.to
             THEN <<Slice(h.from, Head(rest).to)>> \o Tail(rest)
             ELSE <<h>> \o rest

\* Math.floor(RAW_SINGLE_REQUEST_CHAR_LIMIT * 0.8)
\* (variants: the whole limit; 90% of it; Math.floor(0.8) times the limit)
chunkSize_Full == RAW_SINGLE_REQUEST_CHAR_LIMIT
chunkSize_FloorFirst == (8 \div 10) * RAW_SINGLE_REQUEST_CHAR_LIMIT
chunkSize_NinetyPercent == (RAW_SINGLE_REQUEST_CHAR_LIMIT * 9) \div 10
chunkSize == (RAW_SINGLE_REQUEST_CHAR_LIMIT * 8) \div 10

\* The while loop of simulateChunking
\* (variant: while (currentPos <= fullDataString.length))
RECURSIVE SplitLoop_Inclusive(_, _, _)
SplitLoop_Inclusive(fullDataString, currentPos, chunks) ==
    IF currentPos <= Length(fullDataString)
    THEN SplitLoop_Inclusive(fullDataString, currentPos + chunkSize,
                   Append(chunks, Substring(fullDataString, currentPos,
                                            currentPos + chunkSize)))
    ELSE chunks
RECURSIVE SplitLoop(_, _, _)
SplitLoop(fullDataString, currentPos, chunks) ==
    IF currentPos < Length(fullDataString)
    THEN SplitLoop(fullDataString, currentPos + chunkSize,
                   Append(chunks, Substring(fullDataString, currentPos,
                                            currentPos + chunkSize)))
    ELSE chunks

\* fullDataString.length <= RAW_SINGLE_REQUEST_CHAR_LIMIT (variant: <)
FitsSingleRequest_Strict(length) == length < RAW_SINGLE_REQUEST_CHAR_LIMIT
FitsSingleRequest(length) == length <= RAW_SINGLE_REQUEST_CHAR_LIMIT

simulateChunking(data) ==
    LET fullDataString == Slice(0, SerializedLength(data)) IN
    IF FitsSingleRequest(Length(fullDataString))
    THEN [ chunks |-> <<fullDataString>>,
           isSingleRequest |-> TRUE,
           totalChars |-> Length(fullDataString) ]
    ELSE [ chunks |-> SplitLoop(fullDataString, 0, <<>>),
           isSingleRequest |-> FALSE,
           totalChars |-> Length(fullDataString) ]

NoChunking == [chunks |-> <<>>, isSingleRequest |-> FALSE, totalChars |-> 0]

\* simulateChunking step by step: the size test, then the while loop one
\* iteration at a time, with its locals fullDataString, currentPos and chunks
InitSplitCall ==
    \E data \in Datasets(MaxSplitRecords, 0) :
        call = [ fn |-> "simulateChunking", state |-> "called", data |-> data,
                 fullDataString |-> Slice(0, 0), currentPos |-> 0,
                 chunks |-> << >>, isSingleRequest |-> FALSE ]

\* compressDataset, JSON.stringify and the size test
SplitBegin ==
    /\ call.fn = "simulateChunking"
    /\ call.state = "called"
    /\ LET fullDataString == Slice(0, SerializedLength(call.data)) IN
       call' = IF FitsSingleRequest(Length(fullDataString))
               THEN [call EXCEPT !.state = "returned",
                                 !.fullDataString = fullDataString,
                                 !.chunks = <<fullDataString>>,
                                 !.isSingleRequest = TRUE]
               ELSE [call EXCEPT !.state = "loop",
                                 !.fullDataString = fullDataString]
    /\ UNCHANGED <<serverVars, calcVars, raw>>

\* One iteration of while (currentPos < fullDataString.length)
SplitStep ==
    /\ call.fn = "simulateChunking"
    /\ call.state = "loop"
    /\ call.currentPos < Length(call.fullDataString)
    /\ call' = [call EXCEPT
           !.chunks = Append(call.chunks,
                          Substring(call.fullDataString, call.currentPos,
                                    call.currentPos + chunkSize)),
           !.currentPos = call.currentPos + chunkSize]
    /\ UNCHANGED <<serverVars, calcVars, raw>>

\* The loop condition fails; return { chunks, isSingleRequest: false, ... }
SplitReturn ==
    /\ call.fn = "simulateChunking"
    /\ call.state = "loop"
    /\ ~(call.currentPos < Length(call.fullDataString))
    /\ call' = [call EXCEPT !.state = "returned"]
    /\ UNCHANGED <<serverVars, calcVars, raw>>

\* simulateChunking applied to the dataset
SimulateChunking ==
    /\ pc = "start"
    /\ chunkingResult' = simulateChunking(busData)
    /\ pc' = "chunked"
    /\ UNCHANGED <<serverVars, busData, question, results, raw, call>>

(***************************************************************************)
(* estimateTokens and estimateTokensLegacy (unnamed/part_000, lines        *)
(* 159-170).  The legacy factor 0.35 is kept in hundredths; the product    *)
(* text.length * 0.35 is taken exactly.                                    *)
(***************************************************************************)
MaxTextLength == 100

TOKENS_PER_CHAR_ESTIMATE_LEGACY_HUNDREDTHS == 35

\* Math.ceil and Math.floor of the quotient num / den of two non-negative
\* integers
MathFloor(num, den) == num \div den
MathCeil(num, den) == (num + den - 1) \div den

\* Math.ceil(text.length / 4) and Math.ceil(text.length * 0.35), of the
\* length of a text
\* (variant: the modern estimate is computed with the legacy factor)
tokensOfLength_LegacyFactor(length) ==
    MathCeil(length * TOKENS_PER_CHAR_ESTIMATE_LEGACY_HUNDREDTHS, 100)
tokensOfLength(length) == MathCeil(length, 4)
tokensOfLengthLegacy(length) ==
    MathCeil(length * TOKENS_PER_CHAR_ESTIMATE_LEGACY_HUNDREDTHS, 100)

\* (variant: Math.floor)
estimateTokens_Floor(text) ==
    IF ~Truthy(text) THEN 0
    ELSE MathFloor(Len(text.str), 4)
estimateTokens(text) ==
    IF ~Truthy(text) THEN 0
    ELSE tokensOfLength(Len(text.str))

estimateTokensLegacy(text) ==
    IF ~Truthy(text) THEN 0
    ELSE tokensOfLengthLegacy(Len(text.str))

\* The texts estimated: a missing text and the texts of every length
EstimatedTexts ==
    {Undefined} \cup { Str([i \in 1..n |-> "x"]) : n \in 0..MaxTextLength }

InitEstimateCall ==
    \E fn \in {"estimateTokens", "estimateTokensLegacy"}, text \in EstimatedTexts :
        call = [fn |-> fn, state |-> "called", text |-> text, result |-> 0]

EstimateTokens ==
    /\ call.fn = "estimateTokens"
    /\ call.state = "called"
    /\ call' = [call EXCEPT !.state = "returned", !.result = estimateTokens(call.text)]
    /\ UNCHANGED <<serverVars, calcVars, raw>>

EstimateTokensLegacy ==
    /\ call.fn = "estimateTokensLegacy"
    /\ call.state = "called"
    /\ call' = [call EXCEPT !.state = "returned",
                            !.result = estimateTokensLegacy(call.text)]
    /\ UNCHANGED <<serverVars, calcVars, raw>>

(***************************************************************************)
(* calculateTokensForQuestion (unnamed/part_000, lines 223-307)            *)
(***************************************************************************)
MaxRawRecords == 460

\* benchmarkQuestions: each question with its id and the number of
\* characters of its text
benchmarkQuestions ==
    { [id |-> "aggressive-driving", question |-> 56],
      [id |-> "dwell-time", question |-> 70],
      [id |-> "moderate-behavior", question |-> 70],
      [id |-> "route-efficiency", question |-> 31],
      [id |-> "tech-square-patterns", question |-> 53] }

\* The questions calculateTokensForQuestion, which the module exports, is
\* called with: the benchmark questions, and questions of a caller with an
\* empty text or a text of up to MaxQuestionChars characters
MaxQuestionChars == 1787
Questions ==
    benchmarkQuestions \cup
    { [id |-> "custom", question |-> n] :
          n \in {0} \cup (MaxQuestionChars - 3)..MaxQuestionChars }

\* The length of each prompt template without its placeholders
rawTemplateChars == 380
rawChunkTemplateChars == 412
rawFinalTemplateChars == 347

\* buildPrompt(template, query, dataSummary, extraReplacements): the template
\* with the replacements it is given
NoExtra == [chunkIndex |-> 0, totalChunks |-> 0, chunkCount |-> 0, truncatedNote |-> ""]
buildPrompt(template, query, dataSummary, extraReplacements) ==
    [ template |-> template, userQuery |-> query, data |-> dataSummary,
      extra |-> extraReplacements ]

(***************************************************************************)
(* buildPrompt on the characters of the template:                          *)
(* template.replace(/{{(.*?)}}/g, replacer).  A template is drawn as a     *)
(* sequence of pieces, each a placeholder or one character of text.        *)
(***************************************************************************)
MaxPieces == 4

\* String(value), as String.prototype.replace applies it to what the
\* replacer returns
RECURSIVE DecimalDigits(_)
DecimalDigits(n) ==
    LET d == <<"0", "1", "2", "3", "4", "5", "6", "7", "8", "9">>[(n % 10) + 1]
    IN  IF n < 10 THEN <<d>> ELSE Append(DecimalDigits(n \div 10), d)

ToStringJS(v) ==
    CASE v.type = "string" -> v.str
      [] v.type = "number" -> DecimalDigits(v.num)
      [] OTHER -> <<"u", "n", "d", "e", "f", "i", "n", "e", "d">>

KeyData == <<"d", "a", "t", "a">>
KeyUserQuery == <<"u", "s", "e", "r", "Q", "u", "e", "r", "y">>
KeyChunkIndex == <<"c", "h", "u", "n", "k", "I", "n", "d", "e", "x">>

\* { data: dataSummary, userQuery: query, ...extraReplacements }
Replacements(query, dataSummary, extraReplacements) ==
    [k \in {KeyData, KeyUserQuery} \cup DOMAIN extraReplacements |->
        IF k \in DOMAIN extraReplacements THEN extraReplacements[k]
        ELSE IF k = KeyData THEN dataSummary ELSE query]

\* The replacer callback: (_, key) => hasOwnProperty(token) ? value : ''
\* (variant: without key.trim())
replacer_NoTrim(key, replacements) ==
    IF key \in DOMAIN replacements THEN ToStringJS(replacements[key]) ELSE <<>>
replacer(key, replacements) ==
    LET token == Trim(key)
    IN  IF token \in DOMAIN replacements
        THEN ToStringJS(replacements[token])
        ELSE <<>>

\* The match of /{{(.*?)}}/ that starts at position i: the index of the first
\* "}}" at or after i + 2 with no line terminator before it, or 0
MatchAt(s, i) ==
    IF i + 1 <= Len(s) /\ s[i] = "{" /\ s[i + 1] = "{"
    THEN LET closes == { j \in (i + 2)..(Len(s) - 1) :
                            /\ s[j] = "}" /\ s[j + 1] = "}"
                            /\ \A k \in (i + 2)..(j - 1) : s[k] # "\n" }
         IN  IF closes = {} THEN 0
             ELSE CHOOSE j \in closes : \A other \in closes : j <= other
    ELSE 0

\* String.prototype.replace with a global pattern: matches are taken left to
\* right, each search resuming after the previous match
RECURSIVE ReplaceAll(_, _, _, _)
ReplaceAll(s, pos, replacements, out) ==
    IF pos > Len(s) THEN out
    ELSE LET close == MatchAt(s, pos)
         IN  IF close # 0
             THEN ReplaceAll(s, close + 2, replacements,
                      out \o replacer(SubSeq(s, pos + 2, close - 1), replacements))
             ELSE ReplaceAll(s, pos + 1, replacements, Append(out, s[pos]))

\* (variant: the result is searched for placeholders once more)
buildPromptText_TwoPass(template, query, dataSummary, extraReplacements) ==
    LET replacements == Replacements(query, dataSummary, extraReplacements)
    IN  ReplaceAll(ReplaceAll(template, 1, replacements, <<>>), 1, replacements, <<>>)
buildPromptText(template, query, dataSummary, extraReplacements) ==
    ReplaceAll(template, 1, Replacements(query, dataSummary, extraReplacements), <<>>)

\* The pieces templates are drawn from: single characters of text, and
\* placeholders with a name and a padding of spaces around it
TextPiece(c) == [kind |-> "text", name |-> <<c>>, pad |-> 0]
Placeholder(name, pad) == [kind |-> "placeholder", name |-> name, pad |-> pad]
Pieces ==
    { TextPiece("x"), TextPiece("\n"), TextPiece("{"), TextPiece("}"),
      Placeholder(KeyData, 0), Placeholder(KeyUserQuery, 1),
      Placeholder(KeyChunkIndex, 0), Placeholder(<<"k">>, 0),
      Placeholder(<<>>, 0) }

Spaces(n) == [i \in 1..n |-> " "]
RenderPiece(p) ==
    IF p.kind = "text" THEN p.name
    ELSE <<"{", "{">> \o Spaces(p.pad) \o p.name \o Spaces(p.pad) \o <<"}", "}">>

RECURSIVE Render(_)
Render(ps) == IF ps = <<>> THEN <<>> ELSE RenderPiece(Head(ps)) \o Render(Tail(ps))

\* The arguments of the calls checked: a question and a data summary, each
\* plain or holding a placeholder of its own, and the chunk index among the
\* extra replacements
PromptQueries == { Str(<<"q", "?">>), Str(<<"{", "{">> \o KeyData \o <<"}", "}">>) }
PromptDataSummaries ==
    { Str(<<"D">>), Str(<<"{", "{">> \o KeyUserQuery \o <<"}", "}">>) }
PromptExtras == [k \in {KeyChunkIndex} |-> Num(12)]

InitBuildPrompt ==
    \E n \in 0..MaxPieces : \E ps \in [1..n -> Pieces] :
    \E query \in PromptQueries : \E dataSummary \in PromptDataSummaries :
        call = [ fn |-> "buildPrompt", state |-> "called", pieces |-> ps,
                 template |-> Render(ps), query |-> query,
                 data |-> dataSummary, result |-> <<>> ]

BuildPrompt ==
    /\ call.fn = "buildPrompt"
    /\ call.state = "called"
    /\ call' = [call EXCEPT !.state = "returned",
                            !.result = buildPromptText(call.template, call.query,
                                                       call.data, PromptExtras)]
    /\ UNCHANGED <<serverVars, calcVars, raw>>

\* The number of characters of a chunk prompt: the rawChunk template with
\* its four placeholders replaced
ChunkPromptLength(prompt) ==
    rawChunkTemplateChars
    + DigitChars(prompt.extra.chunkIndex) + DigitChars(prompt.extra.totalChunks)
    + Length(prompt.data[1]) + prompt.userQuery

\* The number of characters of the mock analyst notes: "Chunk i analysis
\* notes..." for each note, joined by two line feeds
RECURSIVE NotesLength(_)
NotesLength(notes) ==
    IF notes = << >> THEN 0
    ELSE 24 + DigitChars(Head(notes))
         + (IF Len(notes) > 1 THEN 2 ELSE 0) + NotesLength(Tail(notes))

\* prompt.length of the prompts calculateTokensForQuestion builds, whose
\* truncatedNote is empty
PromptLength(prompt) ==
    CASE prompt.template = "raw" ->
             rawTemplateChars + Length(prompt.data[1]) + prompt.userQuery
      [] prompt.template = "rawChunk" -> ChunkPromptLength(prompt)
      [] OTHER ->
             rawFinalTemplateChars + DigitChars(prompt.extra.chunkCount)
             + NotesLength(prompt.data) + prompt.userQuery

\* An entry of results.tokenCalculations: the prompt with its length and
\* the two estimates of its tokens; a prompt is never the empty text
Calculation(type, number, prompt, dataSize) ==
    [ type |-> type, number |-> number, prompt |-> prompt,
      promptLength |-> PromptLength(prompt),
      estimatedTokens |-> tokensOfLength(PromptLength(prompt)),
      estimatedTokensLegacy |-> tokensOfLengthLegacy(PromptLength(prompt)),
      dataSize |-> dataSize ]

\* chunkIndex: index + 1
\* (variant: chunkIndex: index)
chunkIndexOf_ZeroBased(index) == index
chunkIndexOf(index) == index + 1

\* chunkingResult.chunks.map((_, i) => `Chunk ${i + 1} analysis notes...`):
\* the notes, each named by the chunk it is about
\* (variant: notes in reverse chunk order)
\* (variant: the note of the last chunk is dropped)
mockAnalystNotes_DropLast(chunks) == [i \in 1..(Len(chunks) - 1) |-> i]
mockAnalystNotes_Reversed(chunks) == [i \in 1..Len(chunks) |-> Len(chunks) + 1 - i]
mockAnalystNotes(chunks) == [i \in 1..Len(chunks) |-> i]

\* if (chunkingResult.isSingleRequest) ... else ...
\* (variant: the else branch always)
BranchOf_AlwaysMulti(result) == "forEach"
BranchOf(result) == IF result.isSingleRequest THEN "single" ELSE "forEach"

Push(res, entry) ==
    [res EXCEPT !.tokenCalculations = Append(res.tokenCalculations, entry)]

\* results = {...}; chunkingResult = simulateChunking(busData)
BeginCalculation ==
    /\ pc = "calc"
    /\ results' = [tokenCalculations |-> <<>>, chunkCount |-> 0]
    /\ chunkingResult' = simulateChunking(busData)
    /\ pc' = BranchOf(chunkingResult')
    /\ UNCHANGED <<serverVars, busData, question, raw, call>>

\* Single request mode
SingleRequestPrompt ==
    /\ pc = "single"
    /\ results' = Push(results,
           Calculation("single-request", 0,
               buildPrompt("raw", question.question, <<chunkingResult.chunks[1]>>, NoExtra),
               chunkingResult.totalChars))
    /\ pc' = "return"
    /\ UNCHANGED <<serverVars, busData, question, chunkingResult, raw, call>>

\* One round of chunkingResult.chunks.forEach((chunk, index) => ...)
ChunkPrompt ==
    /\ pc = "forEach"
    /\ LET index == Len(results.tokenCalculations)
           chunk == chunkingResult.chunks[index + 1]
       IN  /\ index < Len(chunkingResult.chunks)
           /\ results' = Push(results,
                  Calculation("chunk", index + 1,
                      buildPrompt("rawChunk", question.question, <<chunk>>,
                          [ chunkIndex |-> chunkIndexOf(index),
                            totalChunks |-> Len(chunkingResult.chunks),
                            chunkCount |-> 0, truncatedNote |-> "" ]),
                      Length(chunk)))
           /\ pc' = IF index + 1 < Len(chunkingResult.chunks)
                    THEN "forEach" ELSE "final"
    /\ UNCHANGED <<serverVars, busData, question, chunkingResult, raw, call>>

\* The final synthesis prompt
FinalSynthesisPrompt ==
    /\ pc = "final"
    /\ results' =
           [ Push(results,
               Calculation("final-synthesis", 0,
                   buildPrompt("rawFinal", question.question,
                       mockAnalystNotes(chunkingResult.chunks),
                       [ chunkIndex |-> 0, totalChunks |-> 0,
                         chunkCount |-> Len(chunkingResult.chunks),
                         truncatedNote |-> "" ]),
                   NotesLength(mockAnalystNotes(chunkingResult.chunks))))
             EXCEPT !.chunkCount = Len(chunkingResult.chunks) ]
    /\ pc' = "return"
    /\ UNCHANGED <<serverVars, busData, question, chunkingResult, raw, call>>

(***************************************************************************)
(* classify (analyzeUserQuery), the intent classifier.  Its code is not    *)
(* among the sources; it is modelled from section 4.4 of the               *)
(* specification, with the keyword lists of README.md, lines 67-75.        *)
(***************************************************************************)
MaxWords == 3

aggressivePatternsKeywords ==
    { <<"a", "g", "g", "r", "e", "s", "s", "i", "v", "e">>,
      <<"d", "a", "n", "g", "e", "r", "o", "u", "s">>,
      <<"s", "p", "e", "e", "d", "i", "n", "g">>,
      <<"h", "a", "r", "s", "h">>,
      <<"r", "e", "c", "k", "l", "e", "s", "s">>,
      <<"b", "e", "h", "a", "v", "i", "o", "r">>,
      <<"p", "a", "t", "t", "e", "r", "n">> }
dwellTimeKeywords ==
    { <<"d", "w", "e", "l", "l">>, <<"s", "t", "o", "p">>,
      <<"w", "a", "i", "t">>, <<"i", "d", "l", "e">>,
      <<"s", "t", "a", "t", "i", "o", "n", "a", "r", "y">>,
      <<"l", "i", "n", "g", "e", "r">>, <<"p", "a", "u", "s", "e">> }
routeEfficiencyKeywords ==
    { <<"r", "o", "u", "t", "e">>, <<"p", "a", "t", "h">>,
      <<"e", "f", "f", "i", "c", "i", "e", "n", "c", "y">>,
      <<"d", "e", "t", "o", "u", "r">>, <<"t", "i", "m", "e">>,
      <<"d", "i", "s", "t", "a", "n", "c", "e">>, <<"s", "l", "o", "w">>,
      <<"f", "a", "s", "t">> }
generalInfoKeywords ==
    { <<"s", "u", "m", "m", "a", "r", "y">>,
      <<"o", "v", "e", "r", "v", "i", "e", "w">>,
      <<"i", "n", "f", "o", "r", "m", "a", "t", "i", "o", "n">>,
      <<"s", "t", "a", "t", "s">>, <<"i", "n", "s", "i", "g", "h", "t">>,
      <<"a", "n", "a", "l", "y", "s", "i", "s">> }

\* The categories, in the order of priority that breaks ties
Categories == <<"aggressivePatterns", "dwellTime", "routeEfficiency", "generalInfo">>
KeywordsOf(category) ==
    CASE category = "aggressivePatterns" -> aggressivePatternsKeywords
      [] category = "dwellTime" -> dwellTimeKeywords
      [] category = "routeEfficiency" -> routeEfficiencyKeywords
      [] OTHER -> generalInfoKeywords

\* The positions of text at which keyword occurs as a substring
Occurrences(text, keyword) ==
    { i \in 1..(Len(text) - Len(keyword) + 1) :
          SubSeq(text, i, i + Len(keyword) - 1) = keyword }

\* The number of occurrences in text of the keywords of a set
RECURSIVE CountOccurrences(_, _)
CountOccurrences(text, keywords) ==
    IF keywords = {} THEN 0
    ELSE LET keyword == CHOOSE k \in keywords : TRUE
         IN  Cardinality(Occurrences(text, keyword))
                 + CountOccurrences(text, keywords \ {keyword})

\* The score of a category: its keyword occurrences in the lower-cased query
\* (variant: the query is not lower-cased)
Score_CaseSensitive(queryText, category) ==
    CountOccurrences(queryText, KeywordsOf(category))
Score(queryText, category) ==
    CountOccurrences(ToLowerCase(queryText), KeywordsOf(category))

\* The first category, in priority order, among those of the highest score
RECURSIVE FirstBest(_, _, _)
FirstBest(queryText, k, best) ==
    IF k > Len(Categories) THEN best
    ELSE FirstBest(queryText, k + 1,
             IF Score(queryText, Categories[k]) > Score(queryText, best)
             THEN Categories[k] ELSE best)

\* (variant: a later category takes a tie)
classify_LastWins(queryText) ==
    LET top == FirstBest(queryText, 2, Categories[1])
        ties == { k \in 1..Len(Categories) :
                     Score(queryText, Categories[k]) = Score(queryText, top) }
    IN  IF Score(queryText, top) = 0 THEN "generalInfo"
        ELSE Categories[CHOOSE k \in ties : \A j \in ties : j <= k]
classify(queryText) ==
    LET top == FirstBest(queryText, 2, Categories[1])
    IN  IF Score(queryText, top) = 0 THEN "generalInfo" ELSE top

\* The words queries are made of, and a query as words joined by spaces
QueryWords ==
    { <<"W", "a", "i", "t">>, <<"s", "t", "o", "p">>,
      <<"h", "a", "r", "s", "h">>,
      <<"R", "e", "c", "k", "l", "e", "s", "s">>,
      <<"p", "a", "t", "h", "w", "a", "y">>, <<"f", "a", "s", "t">>,
      <<"s", "t", "a", "t", "s">>, <<"b", "u", "s">> }

RECURSIVE JoinWords(_)
JoinWords(ws) ==
    IF ws = <<>> THEN <<>>
    ELSE IF Len(ws) = 1 THEN ws[1]
    ELSE ws[1] \o <<" ">> \o JoinWords(Tail(ws))

InitClassifyCall ==
    \E n \in 0..MaxWords : \E ws \in [1..n -> QueryWords] :
        call = [ fn |-> "classify", state |-> "called",
                 queryText |-> JoinWords(ws), result |-> "none" ]

Classify ==
    /\ call.fn = "classify"
    /\ call.state = "called"
    /\ call' = [call EXCEPT !.state = "returned", !.result = classify(call.queryText)]
    /\ UNCHANGED <<serverVars, calcVars, raw>>

(***************************************************************************)
(* The aggregators computeHotspots, computeDwellIndicators and             *)
(* computeRouteEfficiency.  Their code is not among the sources; they are  *)
(* modelled from section 4.3 of the specification (README.md, lines 32-59, *)
(* documents them).  An event is a record of the fields an aggregator      *)
(* reads; clusterId 0 stands for an absent clusterId, and instability      *)
(* scores are counted in tenths.                                           *)
(***************************************************************************)
MaxClusters == 6
TopHotspots == 5
NoCluster == 0

Event(behavior, clusterId, instabilityScore) ==
    [ behavior |-> behavior, clusterId |-> clusterId,
      instabilityScore |-> instabilityScore ]

\* Filter: behavior in {Aggressive, Very Aggressive}, with a clusterId
\* (variant: any behavior)
Qualifies_AnyBehavior(e) == e.clusterId # NoCluster
Qualifies(e) ==
    /\ e.behavior \in {"Aggressive", "Very Aggressive"}
    /\ e.clusterId # NoCluster

RECURSIVE SumScores(_, _)
SumScores(events, members) ==
    IF members = {} THEN 0
    ELSE LET i == CHOOSE k \in members : TRUE
         IN  events[i].instabilityScore + SumScores(events, members \ {i})

\* One group: eventCount, averageInstability (arithmetic mean, a fraction of
\* tenths) and priorityScore = averageInstability * eventCount
HotspotOf(events, clusterId) ==
    LET members == { i \in 1..Len(events) :
                        Qualifies(events[i]) /\ events[i].clusterId = clusterId }
        eventCount == Cardinality(members)
        average == [num |-> SumScores(events, members), den |-> eventCount]
    IN  [ clusterId |-> clusterId,
          eventCount |-> eventCount,
          averageInstability |-> average,
          priorityScore |-> (average.num * eventCount) \div average.den ]

\* Sort order: priorityScore descending, ties by clusterId ascending
\* (variant: ties by clusterId descending)
Outranks_TieDescending(a, b) ==
    \/ a.priorityScore > b.priorityScore
    \/ a.priorityScore = b.priorityScore /\ a.clusterId > b.clusterId
Outranks(a, b) ==
    \/ a.priorityScore > b.priorityScore
    \/ a.priorityScore = b.priorityScore /\ a.clusterId < b.clusterId

RECURSIVE SortHotspots(_)
SortHotspots(hotspots) ==
    IF hotspots = {} THEN <<>>
    ELSE LET first == CHOOSE h \in hotspots :
                          \A other \in hotspots \ {h} : Outranks(h, other)
         IN  <<first>> \o SortHotspots(hotspots \ {first})

computeHotspots(events) ==
    LET clusterIds == { events[i].clusterId :
                           i \in { k \in 1..Len(events) : Qualifies(events[k]) } }
        sorted == SortHotspots({ HotspotOf(events, c) : c \in clusterIds })
    IN  SubSeq(sorted, 1, Min(TopHotspots, Len(sorted)))

\* The inputs: per cluster none, one or two aggressive events, listed from
\* the last cluster to the first, then a calm event of cluster 1 and an
\* aggressive event without a cluster
ClusterEvents(clusterId, shape) ==
    CASE shape = "one" -> << Event("Aggressive", clusterId, 1) >>
      [] shape = "severe" -> << Event("Very Aggressive", clusterId, 2) >>
      [] shape = "two" -> << Event("Aggressive", clusterId, 1),
                             Event("Very Aggressive", clusterId, 1) >>
      [] OTHER -> << >>

RECURSIVE EventsOfShapes(_, _)
EventsOfShapes(shapes, c) ==
    IF c = 0 THEN << Event("Calm", 1, 9), Event("Aggressive", NoCluster, 9) >>
    ELSE ClusterEvents(c, shapes[c]) \o EventsOfShapes(shapes, c - 1)

InitHotspotsCall ==
    \E shapes \in [1..MaxClusters -> {"none", "one", "severe", "two"}] :
        call = [ fn |-> "computeHotspots", state |-> "called",
                 events |-> EventsOfShapes(shapes, MaxClusters), result |-> << >> ]

ComputeHotspots ==
    /\ call.fn = "computeHotspots"
    /\ call.state = "called"
    /\ call' = [call EXCEPT !.state = "returned",
                            !.result = computeHotspots(call.events)]
    /\ UNCHANGED <<serverVars, calcVars, raw>>

\* computeDwellIndicators.  Timestamps are in milliseconds.
MaxEvents == 3
DwellThresholdMs == 120000

TimedEvent(timestamp, behavior) == [timestamp |-> timestamp, behavior |-> behavior]

\* Sort by timestamp ascending
RECURSIVE SortByTimestamp(_)
SortByTimestamp(events) ==
    IF events = << >> THEN << >>
    ELSE LET first == CHOOSE i \in 1..Len(events) :
                          \A k \in 1..Len(events) :
                              events[i].timestamp <= events[k].timestamp
             rest == [k \in 1..(Len(events) - 1) |->
                         IF k < first THEN events[k] ELSE events[k + 1]]
         IN  <<events[first]>> \o SortByTimestamp(rest)

\* The gap between two consecutive events is a dwell
\* (variant: only a gap above the threshold)
IsDwell_Strict(gap) == gap > DwellThresholdMs
IsDwell(gap) == gap >= DwellThresholdMs

RECURSIVE ScanPairs(_, _, _)
ScanPairs(sorted, i, dwells) ==
    IF i >= Len(sorted) THEN dwells
    ELSE LET gap == sorted[i + 1].timestamp - sorted[i].timestamp
         IN  ScanPairs(sorted, i + 1,
                 IF IsDwell(gap)
                 THEN Append(dwells, [ startTimestamp |-> sorted[i].timestamp,
                                       durationMs |-> gap,
                                       postDwellBehavior |-> sorted[i + 1].behavior ])
                 ELSE dwells)

computeDwellIndicators(events) == ScanPairs(SortByTimestamp(events), 1, << >>)

\* The inputs: events of distinct timestamps, in any order
Timestamps == {0, 30000, 60000, 179999, 180000, 300000, 9000000}

InitDwellCall ==
    \E n \in 0..MaxEvents :
        \E ts \in [1..n -> Timestamps], bs \in [1..n -> {"Calm", "Aggressive"}] :
            /\ \A i, j \in 1..n : i # j => ts[i] # ts[j]
            /\ call = [ fn |-> "computeDwellIndicators", state |-> "called",
                        events |-> [i \in 1..n |-> TimedEvent(ts[i], bs[i])],
                        result |-> << >> ]

ComputeDwellIndicators ==
    /\ call.fn = "computeDwellIndicators"
    /\ call.state = "called"
    /\ call' = [call EXCEPT !.state = "returned",
                            !.result = computeDwellIndicators(call.events)]
    /\ UNCHANGED <<serverVars, calcVars, raw>>

\* computeRouteEfficiency.  The routes run along one meridian, where the
\* haversine distance of two points is proportional to the difference of
\* their latitudes; latitudes and distances are counted in one unit of arc.
\* A ratio is a fraction num / den.
MaxPoints == 4
MaxLatitude == 3

haversine(a, b) == IF a.lat >= b.lat THEN a.lat - b.lat ELSE b.lat - a.lat

RECURSIVE TraveledDistance(_, _)
TraveledDistance(events, i) ==
    IF i >= Len(events) THEN 0
    ELSE haversine(events[i], events[i + 1]) + TraveledDistance(events, i + 1)

\* efficiencyRatio = straight-line / traveled, 1.0 for a stationary route
\* (variant: the division is not guarded)
efficiencyRatio_Unguarded(straightLine, traveled) ==
    [status |-> "ok", num |-> straightLine, den |-> traveled]
efficiencyRatio(straightLine, traveled) ==
    IF traveled = 0
    THEN IF straightLine = 0
         THEN [status |-> "ok", num |-> 1, den |-> 1]
         ELSE [status |-> "error", num |-> 0, den |-> 1]
    ELSE [status |-> "ok", num |-> straightLine, den |-> traveled]

computeRouteEfficiency(events) ==
    IF Len(events) < 2
    THEN [ status |-> "insufficient-data", straightLineDistance |-> 0,
           traveledDistance |-> 0, efficiencyRatio |-> [num |-> 0, den |-> 1] ]
    ELSE LET traveled == TraveledDistance(events, 1)
             straightLine == haversine(events[1], events[Len(events)])
             ratio == efficiencyRatio(straightLine, traveled)
         IN  [ status |-> ratio.status,
               straightLineDistance |-> straightLine,
               traveledDistance |-> traveled,
               efficiencyRatio |-> [num |-> ratio.num, den |-> ratio.den] ]

NoSummary ==
    [ status |-> "none", straightLineDistance |-> 0, traveledDistance |-> 0,
      efficiencyRatio |-> [num |-> 0, den |-> 1] ]

InitRouteCall ==
    \E n \in 0..MaxPoints : \E lats \in [1..n -> 0..MaxLatitude] :
        call = [ fn |-> "computeRouteEfficiency", state |-> "called",
                 events |-> [i \in 1..n |-> [lat |-> lats[i]]],
                 result |-> NoSummary ]

ComputeRouteEfficiency ==
    /\ call.fn = "computeRouteEfficiency"
    /\ call.state = "called"
    /\ call' = [call EXCEPT !.state = "returned",
                            !.result = computeRouteEfficiency(call.events)]
    /\ UNCHANGED <<serverVars, calcVars, raw>>

(***************************************************************************)
(* resolveLocation (getEnhancedLocationContext), the landmark resolver.    *)
(* Its code is not among the sources; it is modelled from section 4.1 of   *)
(* the specification and README.md, lines 136-142.  Landmarks and          *)
(* coordinates lie on one meridian, as the routes above.                   *)
(***************************************************************************)
MaxLandmarks == 2
MaxRadius == 2

\* A landmark: its coordinates, its radius and its kind; its name is its
\* index in the landmark table
Landmark(lat, radius, kind) == [lat |-> lat, radius |-> radius, kind |-> kind]
LandmarkKinds == {"building", "constructionZone"}

\* The point-radius test of one landmark: the boundary belongs to it
\* (variant: the boundary does not)
WithinRadius_Strict(landmark, coordinate) ==
    haversine(landmark, coordinate) < landmark.radius
WithinRadius(landmark, coordinate) ==
    haversine(landmark, coordinate) <= landmark.radius

\* The matches ordered nearest first, landmarks at the same distance in the
\* order of the table
RECURSIVE SortNearestFirst(_, _, _)
SortNearestFirst(campusLandmarks, coordinate, matches) ==
    IF matches = {} THEN << >>
    ELSE LET nearest == { i \in matches : \A k \in matches :
                             haversine(campusLandmarks[i], coordinate)
                                 <= haversine(campusLandmarks[k], coordinate) }
             first == CHOOSE i \in nearest : \A k \in nearest : i <= k
         IN  <<first>> \o SortNearestFirst(campusLandmarks, coordinate,
                                            matches \ {first})

FallbackDescription == "unmapped campus area"

\* resolveLocation(lat, lon): "near" the primary landmark, "close to" the
\* secondary ones, and the construction-zone flag; or the fallback
resolveLocation(campusLandmarks, coordinate) ==
    LET matches == SortNearestFirst(campusLandmarks, coordinate,
                       { i \in 1..Len(campusLandmarks) :
                             WithinRadius(campusLandmarks[i], coordinate) })
    IN  IF matches = << >>
        THEN [ description |-> FallbackDescription, near |-> 0,
               closeTo |-> << >>, constructionZoneNearby |-> FALSE ]
        ELSE [ description |-> "near", near |-> Head(matches),
               closeTo |-> Tail(matches),
               constructionZoneNearby |->
                   \E k \in 1..Len(matches) :
                       campusLandmarks[matches[k]].kind = "constructionZone" ]

InitLocationCall ==
    \E n \in 0..MaxLandmarks :
    \E lats \in [1..n -> 0..MaxLatitude] : \E radii \in [1..n -> 0..MaxRadius] :
    \E kinds \in [1..n -> LandmarkKinds] : \E lat \in 0..MaxLatitude :
        call = [ fn |-> "resolveLocation", state |-> "called",
                 campusLandmarks |->
                     [i \in 1..n |-> Landmark(lats[i], radii[i], kinds[i])],
                 coordinate |-> [lat |-> lat],
                 result |-> [ description |-> "", near |-> 0, closeTo |-> << >>,
                              constructionZoneNearby |-> FALSE ] ]

ResolveLocation ==
    /\ call.fn = "resolveLocation"
    /\ call.state = "called"
    /\ call' = [call EXCEPT !.state = "returned",
                            !.result = resolveLocation(call.campusLandmarks,
                                                       call.coordinate)]
    /\ UNCHANGED <<serverVars, calcVars, raw>>

(***************************************************************************)
(* compressDataset and simulateChunking on the objects they touch          *)
(* (unnamed/part_000, lines 175-218).  The heap is a sequence of objects,  *)
(* an object's identity its index; a property value is a text or a         *)
(* reference to an object.                                                 *)
(***************************************************************************)
MaxHeapRecords == 3

Text(s) == [ref |-> 0, text |-> s]
Ref(id) == [ref |-> id, text |-> ""]
Absent == [ref |-> 0, text |-> "undefined"]

PropertyNames ==
    { "behavior", "timestamp", "coordinates", "id", "cluster", "activity",
      "b", "t", "c", "i", "cl", "a" }
NoProperties == [name \in PropertyNames |-> Absent]

ArrayObject(elems) == [kind |-> "array", elems |-> elems, props |-> NoProperties]
PlainObject(props) ==
    [ kind |-> "object", elems |-> << >>,
      props |-> [name \in PropertyNames |->
                    IF name \in DOMAIN props THEN props[name] ELSE Absent] ]

\* record => ({ b: record.behavior, t: record.timestamp, c: record.coordinates,
\*              i: record.id, cl: record.cluster, a: record.activity })
compressedRecord(record) ==
    PlainObject([ b |-> record.props["behavior"], t |-> record.props["timestamp"],
                  c |-> record.props["coordinates"], i |-> record.props["id"],
                  cl |-> record.props["cluster"], a |-> record.props["activity"] ])

\* compressDataset: data.map(...) allocates one object per record and the
\* array of them
\* (variant: the records of data are overwritten and data is returned)
compressDataset_InPlace(heap, data) ==
    [ heap |-> [id \in 1..Len(heap) |->
                   IF \E j \in 1..Len(heap[data].elems) : heap[data].elems[j] = id
                   THEN compressedRecord(heap[id]) ELSE heap[id]],
      value |-> data ]
compressDataset(heap, data) ==
    LET records == heap[data].elems
        base == Len(heap)
    IN  [ heap |-> heap \o [j \in 1..Len(records) |-> compressedRecord(heap[records[j]])]
                       \o << ArrayObject([j \in 1..Len(records) |-> base + j]) >>,
          value |-> base + Len(records) + 1 ]

\* simulateChunking: compressDataset(data), JSON.stringify of the result
\* (which reads it), and the object { chunks, isSingleRequest, totalChars }
simulateChunkingOnHeap(heap, data) ==
    LET compressed == compressDataset(heap, data)
    IN  [ heap |-> Append(compressed.heap, PlainObject(<< >>)),
          value |-> Len(compressed.heap) + 1 ]

\* The heap of a dataset of n records: the coordinates arrays, the records,
\* and the array of the records
RecordIds == <<"1", "2", "3", "4">>
DatasetHeap(n, recordBehaviors, recordClusters) ==
    [j \in 1..n |-> ArrayObject(<<j, j>>)]
    \o [j \in 1..n |->
           PlainObject([ behavior |-> Text(recordBehaviors[j]),
                         timestamp |-> Text("2024-01-01T00:00:00.000Z"),
                         coordinates |-> Ref(j),
                         id |-> Text(RecordIds[j]),
                         cluster |-> Text(recordClusters[j]),
                         activity |-> Text("Moving") ])]
    \o << ArrayObject([j \in 1..n |-> n + j]) >>

InitHeapCall ==
    \E fn \in {"compressDataset", "simulateChunking"}, n \in 0..MaxHeapRecords :
        \E bs \in [1..n -> {"Calm", "Aggressive"}],
           cs \in [1..n -> {"Klaus_Area", "Tech_Square"}] :
            call = [ fn |-> fn, state |-> "called",
                     before |-> DatasetHeap(n, bs, cs),
                     heap |-> DatasetHeap(n, bs, cs),
                     data |-> 2 * n + 1, value |-> 0 ]

CompressDataset ==
    /\ call.fn = "compressDataset"
    /\ call.state = "called"
    /\ LET returned == compressDataset(call.heap, call.data)
       IN  call' = [call EXCEPT !.state = "returned", !.heap = returned.heap,
                                !.value = returned.value]
    /\ UNCHANGED <<serverVars, calcVars, raw>>

SimulateChunkingOnHeap ==
    /\ call.fn = "simulateChunking"
    /\ call.state = "called"
    /\ LET returned == simulateChunkingOnHeap(call.heap, call.data)
       IN  call' = [call EXCEPT !.state = "returned", !.heap = returned.heap,
                                !.value = returned.value]
    /\ UNCHANGED <<serverVars, calcVars, raw>>

(***************************************************************************)
(* processRawMode, the raw-mode orchestrator.  Its code is not among the   *)
(* sources; it is modelled from the Chunking Engine state machine of the   *)
(* specification (SizeCheck, SingleRequest, MultiChunk, Synthesis, and the *)
(* terminal states) and from README.md, lines 98-113.                      *)
(***************************************************************************)
NoAnswer == "none"

\* README.md: "Safety Limits: Maximum 20 chunks with truncation warnings"
MAX_CHUNKS == 20

\* splitFeaturesForRawMode: the partition, cut to the hard cap of chunks with
\* a truncation warning
splitFeaturesForRawMode(data) ==
    LET split == simulateChunking(data) IN
    IF Len(split.chunks) > MAX_CHUNKS
    THEN [ chunks |-> SubSeq(split.chunks, 1, MAX_CHUNKS),
           isSingleRequest |-> FALSE, truncated |-> TRUE ]
    ELSE [ chunks |-> split.chunks,
           isSingleRequest |-> split.isSingleRequest, truncated |-> FALSE ]

InitProcessRaw ==
    raw = [ state |-> "SizeCheck", chunks |-> <<>>, truncated |-> FALSE,
            inFlight |-> FALSE, calls |-> <<>>, notes |-> <<>>,
            answer |-> NoAnswer, failedAt |-> "none" ]

\* SizeCheck: compress, serialize and compare with the single-request budget
RawSizeCheck ==
    /\ raw.state = "SizeCheck"
    /\ LET split == splitFeaturesForRawMode(busData) IN
       raw' = [raw EXCEPT !.chunks = split.chunks,
                          !.truncated = split.truncated,
                          !.state = IF split.isSingleRequest
                                    THEN "SingleRequest" ELSE "MultiChunk"]
    /\ UNCHANGED <<serverVars, calcVars, call>>

\* The next request of the protocol: the single request, the analysis of the
\* next chunk, or the synthesis over the notes in chunk order
NextCall(r) ==
    CASE r.state = "SingleRequest" ->
           [kind |-> "single", chunkIndex |-> 1, totalChunks |-> 1, notes |-> <<>>]
      [] r.state = "MultiChunk" ->
           [kind |-> "chunk", chunkIndex |-> Len(r.notes) + 1,
            totalChunks |-> Len(r.chunks), notes |-> <<>>]
      [] r.state = "Synthesis" ->
           [kind |-> "synthesis", chunkIndex |-> 0,
            totalChunks |-> Len(r.chunks), notes |-> r.notes]

\* A request is sent to the completion service; requests are sequential
RawIssueCall ==
    /\ raw.state \in {"SingleRequest", "MultiChunk", "Synthesis"}
    /\ ~raw.inFlight
    /\ raw' = [raw EXCEPT !.inFlight = TRUE, !.calls = Append(raw.calls, NextCall(raw))]
    /\ UNCHANGED <<serverVars, calcVars, call>>

\* The completion service answers the request in flight
OnCallSuccess(r, reply) ==
    CASE r.state = "MultiChunk" ->
           [r EXCEPT !.inFlight = FALSE, !.notes = Append(r.notes, reply),
                     !.state = IF Len(r.notes) + 1 = Len(r.chunks)
                               THEN "Synthesis" ELSE "MultiChunk"]
      [] OTHER ->
           [r EXCEPT !.inFlight = FALSE, !.answer = reply, !.state = "Success"]

RawCallReturns(reply) ==
    /\ raw.inFlight
    /\ raw' = OnCallSuccess(raw, reply)
    /\ UNCHANGED <<serverVars, calcVars, call>>

\* The completion service fails: the request ends in Failure, whatever notes
\* have been collected
\* (variant: a failed chunk is skipped with an empty note)
OnCallFailure_SkipChunk(r) ==
    IF r.state = "MultiChunk"
    THEN [OnCallSuccess(r, "")
             EXCEPT !.failedAt = r.calls[Len(r.calls)].kind]
    ELSE [r EXCEPT !.inFlight = FALSE, !.state = "Failure",
                   !.failedAt = r.calls[Len(r.calls)].kind]
OnCallFailure(r) ==
    [r EXCEPT !.inFlight = FALSE, !.state = "Failure", !.answer = NoAnswer,
              !.failedAt = r.calls[Len(r.calls)].kind]

RawCallFails ==
    /\ raw.inFlight
    /\ raw' = OnCallFailure(raw)
    /\ UNCHANGED <<serverVars, calcVars, call>>

InitCalcIdle ==
    /\ busData = [recordCount |-> 0, shortDigits |-> 0]
    /\ chunkingResult = NoChunking
    /\ question = "none"
    /\ results = [tokenCalculations |-> <<>>, chunkCount |-> 0]
    /\ pc = "idle"

InitRawIdle == raw = [state |-> "idle"]

InitCallIdle == call = [fn |-> "none"]

InitServer ==
    /\ app \in ServerVersions
    /\ hasApiKey \in BOOLEAN
    /\ responseCache = << >>
    /\ requests = << >>
    /\ InitCalcIdle
    /\ InitRawIdle
    /\ InitCallIdle

NextServer ==
    \/ \E ep \in {"summary", "insight"}, prompt \in PromptValues : Post(ep, prompt)
    \/ \E i \in 1..Len(requests) : StreamTextResolves(i)
    \/ \E i \in 1..Len(requests), reply \in Replies : StreamCompletes(i, reply)
    \/ \E i \in 1..Len(requests) : StreamThrows(i)
    \/ \E i \in 1..Len(requests), s \in {200} \cup UpstreamErrorStatuses :
           FetchResolves(i, s)
    \/ \E i \in 1..Len(requests), reply \in Replies : JsonResolves(i, reply)
    \/ \E i \in 1..Len(requests) : FetchThrows(i)

SpecServer == InitServer /\ [][NextServer]_vars

\* The completion service eventually returns or fails: a promise a handler
\* awaits is settled, and the handler resumed, for every request
ServiceStep(i) ==
    /\ i \in 1..Len(requests)
    /\ \/ StreamTextResolves(i)
       \/ \E reply \in Replies : StreamCompletes(i, reply)
       \/ StreamThrows(i)
       \/ \E s \in {200} \cup UpstreamErrorStatuses : FetchResolves(i, s)
       \/ \E reply \in Replies : JsonResolves(i, reply)
       \/ FetchThrows(i)

\* The prompts of the requests whose answering is followed to its end: an
\* invalid one and two of one cache key
AnsweredPromptValues == { Undefined, Str(<<"a">>), Str(<<" ", "A", " ">>) }

NextServerFair ==
    \/ \E ep \in {"summary", "insight"}, prompt \in AnsweredPromptValues :
           Post(ep, prompt)
    \/ \E i \in 1..Len(requests) : StreamTextResolves(i)
    \/ \E i \in 1..Len(requests), reply \in Replies : StreamCompletes(i, reply)
    \/ \E i \in 1..Len(requests) : StreamThrows(i)
    \/ \E i \in 1..Len(requests), s \in {200} \cup UpstreamErrorStatuses :
           FetchResolves(i, s)
    \/ \E i \in 1..Len(requests), reply \in Replies : JsonResolves(i, reply)
    \/ \E i \in 1..Len(requests) : FetchThrows(i)

SpecServerFair ==
    /\ InitServer
    /\ [][NextServerFair]_vars
    /\ \A i \in 1..MaxRequests : WF_vars(ServiceStep(i))

InitGet ==
    /\ app \in ServerVersions
    /\ hasApiKey \in BOOLEAN
    /\ responseCache = << >>
    /\ requests = << >>
    /\ InitCalcIdle
    /\ InitRawIdle
    /\ InitGetCall

NextGet == Get

SpecGet == InitGet /\ [][NextGet]_vars

\* Every server of the repository: server.js, api/index.js, the legacy server
InitHandlers ==
    /\ app \in ServerVersions \cup {"api", "legacy"}
    /\ hasApiKey \in BOOLEAN
    /\ responseCache = << >>
    /\ requests = << >>
    /\ InitCalcIdle
    /\ InitRawIdle
    /\ InitCallIdle

NextHandlers ==
    \/ \E ep \in {"summary", "insight"}, prompt \in PromptValues : Post(ep, prompt)
    \/ \E i \in 1..Len(requests) : StreamTextResolves(i)
    \/ \E i \in 1..Len(requests), reply \in Replies : StreamCompletes(i, reply)
    \/ \E i \in 1..Len(requests) : StreamThrows(i)
    \/ \E i \in 1..Len(requests), s \in {200} \cup UpstreamErrorStatuses :
           FetchResolves(i, s)
    \/ \E i \in 1..Len(requests), reply \in Replies : JsonResolves(i, reply)
    \/ \E i \in 1..Len(requests) : FetchThrows(i)
    \/ \E prompt \in ApiPromptValues : PostApi(prompt)
    \/ \E i \in 1..Len(requests), s \in {200} \cup UpstreamErrorStatuses :
           ApiFetchResolves(i, s)
    \/ \E i \in 1..Len(requests),
          doc \in UNION {UpstreamDocuments(s) : s \in {200} \cup UpstreamErrorStatuses} :
           ApiJsonResolves(i, doc)
    \/ \E i \in 1..Len(requests) : ApiThrows(i)
    \/ \E prompt \in ApiPromptValues : PostLegacy(prompt)
    \/ \E i \in 1..Len(requests), s \in {200} \cup UpstreamErrorStatuses :
           LegacyFetchResolves(i, s)
    \/ \E i \in 1..Len(requests),
          doc \in UNION {UpstreamDocuments(s) : s \in {200} \cup UpstreamErrorStatuses} :
           LegacyJsonResolves(i, doc)
    \/ \E i \in 1..Len(requests), message \in ErrorMessages : LegacyThrows(i, message)

SpecHandlers == InitHandlers /\ [][NextHandlers]_vars

InitServerIdle ==
    /\ app = "gateway"
    /\ hasApiKey = FALSE
    /\ responseCache = << >>
    /\ requests = << >>

InitChunk ==
    /\ InitServerIdle
    /\ InitRawIdle
    /\ InitCallIdle
    /\ busData \in {d \in Datasets(MaxRecords, MaxShortDigits) : ValidDataset(d)}
    /\ chunkingResult = NoChunking
    /\ question = "none"
    /\ results = [tokenCalculations |-> <<>>, chunkCount |-> 0]
    /\ pc = "start"

NextChunk == SimulateChunking

SpecChunk == InitChunk /\ [][NextChunk]_vars

InitRaw ==
    /\ InitServerIdle
    /\ InitRawIdle
    /\ InitCallIdle
    /\ busData \in Datasets(MaxRawRecords, 0)
    /\ chunkingResult = NoChunking
    /\ question \in Questions
    /\ results = [tokenCalculations |-> <<>>, chunkCount |-> 0]
    /\ pc = "calc"

NextRaw ==
    \/ BeginCalculation
    \/ SingleRequestPrompt
    \/ ChunkPrompt
    \/ FinalSynthesisPrompt

SpecRaw == InitRaw /\ [][NextRaw]_vars

InitPrompt ==
    /\ InitServerIdle
    /\ InitCalcIdle
    /\ InitRawIdle
    /\ InitBuildPrompt

NextPrompt == BuildPrompt

SpecPrompt == InitPrompt /\ [][NextPrompt]_vars

InitClassify ==
    /\ InitServerIdle
    /\ InitCalcIdle
    /\ InitRawIdle
    /\ InitClassifyCall

NextClassify == Classify

SpecClassify == InitClassify /\ [][NextClassify]_vars

InitHotspots ==
    /\ InitServerIdle
    /\ InitCalcIdle
    /\ InitRawIdle
    /\ InitHotspotsCall

NextHotspots == ComputeHotspots

SpecHotspots == InitHotspots /\ [][NextHotspots]_vars

InitDwell ==
    /\ InitServerIdle
    /\ InitCalcIdle
    /\ InitRawIdle
    /\ InitDwellCall

NextDwell == ComputeDwellIndicators

SpecDwell == InitDwell /\ [][NextDwell]_vars

InitRoute ==
    /\ InitServerIdle
    /\ InitCalcIdle
    /\ InitRawIdle
    /\ InitRouteCall

NextRoute == ComputeRouteEfficiency

SpecRoute == InitRoute /\ [][NextRoute]_vars

InitLocation ==
    /\ InitServerIdle
    /\ InitCalcIdle
    /\ InitRawIdle
    /\ InitLocationCall

NextLocation == ResolveLocation

SpecLocation == InitLocation /\ [][NextLocation]_vars

InitSplit ==
    /\ InitServerIdle
    /\ InitCalcIdle
    /\ InitRawIdle
    /\ InitSplitCall

NextSplit ==
    \/ SplitBegin
    \/ SplitStep
    \/ SplitReturn

SpecSplit == InitSplit /\ [][NextSplit]_vars

\* The loop runs: simulateChunking is synchronous code
SpecSplitFair == InitSplit /\ [][NextSplit]_vars /\ WF_vars(NextSplit)

InitHeap ==
    /\ InitServerIdle
    /\ InitCalcIdle
    /\ InitRawIdle
    /\ InitHeapCall

NextHeap ==
    \/ CompressDataset
    \/ SimulateChunkingOnHeap

SpecHeap == InitHeap /\ [][NextHeap]_vars

InitEstimate ==
    /\ InitServerIdle
    /\ InitCalcIdle
    /\ InitRawIdle
    /\ InitEstimateCall

NextEstimate ==
    \/ EstimateTokens
    \/ EstimateTokensLegacy

SpecEstimate == InitEstimate /\ [][NextEstimate]_vars

InitProcess ==
    /\ InitServerIdle
    /\ busData \in Datasets(MaxRawRecords, 0)
    /\ chunkingResult = NoChunking
    /\ question = "none"
    /\ results = [tokenCalculations |-> <<>>, chunkCount |-> 0]
    /\ pc = "idle"
    /\ InitProcessRaw
    /\ InitCallIdle

NextProcessRaw ==
    \/ RawSizeCheck
    \/ RawIssueCall
    \/ \E reply \in Replies : RawCallReturns(reply)
    \/ RawCallFails

SpecProcessRaw == InitProcess /\ [][NextProcessRaw]_vars

(***************************************************************************)
(* Properties of server.js, checked under SpecServer                       *)
(***************************************************************************)
IsBlank(s) == \A k \in 1..Len(s) : s[k] = " "
BadPrompt(p) == p.type # "string" \/ IsBlank(p.str)
NormalizedKey(p) == ToLowerCase(Trim(p.str))

\* C1: a request whose prompt is missing, not a string, empty or only
\* whitespace is answered 400 with the validation error, and it makes no cache
\* lookup, no cache write and no completion-service call.
C1_InvalidPromptRejected ==
    \A i \in 1..Len(requests) :
        BadPrompt(requests[i].prompt) =>
            /\ requests[i].pc = "done"
            /\ requests[i].status = 400
            /\ requests[i].body = ValidationError
            /\ requests[i].cacheLookups = 0
            /\ requests[i].cacheWrites = 0
            /\ requests[i].serviceCalls = 0

\* C1 witness: a whitespace-only prompt and a missing prompt have both been
\* rejected, one of them on /api/generate-insight.
C1_Witness ==
    \E i, j \in 1..Len(requests) :
        /\ requests[i].prompt = Str(<<" ">>) /\ requests[i].status = 400
        /\ requests[i].ep = "insight"
        /\ requests[j].prompt = Undefined /\ requests[j].status = 400
        /\ requests[j].ep = "summary"

\* C2: once a valid request has been answered successfully by an endpoint,
\* every later valid request to that endpoint with the same normalized key
\* (trim, then lower-case) is answered from the cache, with a response the
\* service produced for that key, and makes no completion-service call.
C2_RepeatServedFromCache ==
    \A i \in 1..Len(requests) : \A j \in requests[i].answeredBefore :
        ( /\ requests[j].ep = requests[i].ep
          /\ ~BadPrompt(requests[i].prompt)
          /\ NormalizedKey(requests[j].prompt) = NormalizedKey(requests[i].prompt) )
        => /\ requests[i].pc = "done"
           /\ requests[i].status = 200
           /\ requests[i].source = "cache"
           /\ requests[i].serviceCalls = 0
           /\ \E k \in 1..(i - 1) :
                 /\ requests[k].source = "service"
                 /\ NormalizedKey(requests[k].prompt) = NormalizedKey(requests[i].prompt)
                 /\ requests[k].body = requests[i].body

\* C2 witness: a request with prompt " A " arrived after "a" had been answered
\* successfully by the same endpoint, and was served from the cache.
C2_Witness ==
    \E i \in 1..Len(requests) : \E j \in requests[i].answeredBefore :
        /\ requests[j].ep = requests[i].ep
        /\ requests[j].prompt = Str(<<"a">>)
        /\ requests[j].source = "service"
        /\ requests[i].prompt = Str(<<" ", "A", " ">>)
        /\ requests[i].source = "cache"

\* C13: with no API key configured, a valid request that is not served from
\* the cache is answered 500 with the configuration-error body of its
\* endpoint, and no completion-service call is issued for it.
C13_MissingKeyIsConfigError ==
    \A i \in 1..Len(requests) :
        ( /\ ~hasApiKey
          /\ ~BadPrompt(requests[i].prompt)
          /\ requests[i].source # "cache" )
        => /\ requests[i].pc = "done"
           /\ requests[i].status = 500
           /\ requests[i].body = ConfigError(app, requests[i].ep)
           /\ requests[i].body.error = "API configuration error"
           /\ requests[i].serviceCalls = 0

\* C13 witness: without a key, a valid prompt was looked up in the cache,
\* missed, and was answered 500, on the Groq server and on both gateway
\* endpoints.
C13_Witness ==
    /\ ~hasApiKey
    /\ \E i \in 1..Len(requests) :
          /\ requests[i].prompt = Str(<<"a">>)
          /\ requests[i].cacheLookups = 1
          /\ requests[i].status = 500
          /\ requests[i].ep = "summary"
    /\ \/ app = "groq"
       \/ \E j \in 1..Len(requests) :
             /\ requests[j].ep = "insight"
             /\ requests[j].prompt = Str(<<"b">>)
             /\ requests[j].status = 500

\* C14: a request issues at most one completion-service call; a request
\* whose call did not produce a generated answer ends with a failure status,
\* having issued that one call only.
C14_AtMostOneServiceCall ==
    \A i \in 1..Len(requests) :
        /\ requests[i].serviceCalls <= 1
        /\ requests[i].pc # "done" => requests[i].serviceCalls = 1
        /\ ( /\ requests[i].pc = "done"
             /\ requests[i].serviceCalls = 1
             /\ requests[i].source # "service" )
           => /\ requests[i].status >= 400
              /\ requests[i].responses = 1

\* C14 witness: one request's call threw and another's came back non-OK;
\* both were answered with a failure after one call each.
C14_Witness ==
    \E i, j \in 1..Len(requests) :
        /\ requests[i].pc = "done" /\ requests[i].serviceCalls = 1
        /\ requests[i].status = 500 /\ requests[i].upstreamStatus = 0
        /\ requests[j].pc = "done" /\ requests[j].serviceCalls = 1
        /\ requests[j].status = 503 /\ requests[j].upstreamStatus = 503

\* C24: a key present in responseCache is present after every step of the
\* server: no request, whatever its outcome, removes an entry.
C24_NoEviction ==
    [][\A key \in DOMAIN responseCache : key \in DOMAIN responseCache']_vars

\* C24 witness: two keys are cached, the second written while the first was
\* already present.
C24_Witness ==
    /\ DOMAIN responseCache = { <<"a">>, <<"b">> }
    /\ \A i \in 1..Len(requests) : requests[i].source = "service"

\* The request that a step of the server answers, if any
AnsweredBy(i) == requests[i].pc # "done" /\ requests'[i].pc = "done"

\* C30: a step that ends a request with a 400 or 5xx response, or that
\* serves it from the cache, leaves responseCache as it was; the cache
\* changes only in the step that answers a request with a completion of the
\* service, and then by one entry: that completion under the normalized key
\* of the request's prompt.
C30_CacheChangedOnlyBySuccess ==
    [][ /\ \A i \in 1..Len(requests') :
             ( /\ (i > Len(requests) \/ AnsweredBy(i))
               /\ requests'[i].source # "service" )
             => responseCache' = responseCache
        /\ responseCache' # responseCache =>
             \E i \in 1..Len(requests) :
                 /\ AnsweredBy(i)
                 /\ requests'[i].status = 200
                 /\ requests'[i].source = "service"
                 /\ requests'[i].cacheWrites = 1
                 /\ DOMAIN responseCache' =
                        DOMAIN responseCache \cup {NormalizedKey(requests[i].prompt)}
                 /\ \A k \in DOMAIN responseCache' :
                        responseCache'[k] =
                            IF k = NormalizedKey(requests[i].prompt)
                            THEN requests'[i].body.data
                            ELSE responseCache[k] ]_vars

\* C30 witness: one request failed upstream with 503 and another was answered
\* with a completion; the cache holds the entry of the second only.
C30_Witness ==
    \E i, j \in 1..Len(requests) :
        /\ requests[i].status = 503 /\ requests[i].prompt = Str(<<"b">>)
        /\ requests[j].source = "service"
        /\ requests[j].prompt = Str(<<" ", "A", " ">>)
        /\ DOMAIN responseCache = { <<"a">> }

\* C31: a cached response served by an endpoint was generated by a request
\* to that same endpoint: its completion was made under that endpoint's
\* token limit (500 for /api/generate-summary, 150 for /api/generate-insight).
C31_CacheHitFromSameEndpoint ==
    \A i \in 1..Len(requests) :
        (requests[i].pc = "done" /\ requests[i].source = "cache") =>
            /\ requests[i].body.data.kind = "completion"
            /\ requests[i].body.data.maxTokens = maxTokens(requests[i].ep)

\* The requests answered with a completion the service made for them
AnsweredByService ==
    { i \in 1..Len(requests) :
          requests[i].pc = "done" /\ requests[i].source = "service" }

\* C32: for any interleaving of requests, at most one successful
\* completion-service call is made per distinct cache key: no two requests
\* with the same normalized prompt are both answered by a call of their own.
C32_OneServiceCallPerKey ==
    \A i, j \in AnsweredByService :
        i # j => NormalizedKey(requests[i].prompt) # NormalizedKey(requests[j].prompt)

\* C33: for any interleaving of requests to one endpoint, all requests with
\* the same normalized prompt that are answered successfully receive the same
\* response body.
C33_SameKeySameBody ==
    \A i, j \in AnsweredOK :
        ( /\ requests[i].ep = requests[j].ep
          /\ NormalizedKey(requests[i].prompt) = NormalizedKey(requests[j].prompt) )
            => requests[i].body = requests[j].body

\* C34: every request receives exactly one response on every path: no
\* request is ever sent two responses, a handler that has finished has sent
\* one, and, the completion service eventually returning or failing, every
\* request received is eventually answered: time and again all the requests
\* received so far have their response.
C34_ExactlyOneResponse ==
    /\ [](\A i \in 1..Len(requests) :
             /\ requests[i].responses <= 1
             /\ requests[i].pc = "done" <=> requests[i].responses = 1)
    /\ []<>(\A i \in 1..Len(requests) : requests[i].responses = 1)

\* C34 witness: one request was answered from the catch block after its
\* completion call failed, another with the completion of its call, each once.
C34_Witness ==
    /\ Len(requests) = 2
    /\ requests[1].pc = "done" /\ requests[1].status = 500
    /\ requests[1].serviceCalls = 1 /\ requests[1].responses = 1
    /\ requests[2].pc = "done" /\ requests[2].source = "service"
    /\ requests[2].responses = 1

\* C35 (checked under SpecGet): a GET request to /api/health is answered by
\* the health-check handler with a JSON body whose status is ok; no route
\* registered earlier answers it instead.
C35_HealthAnsweredByHealthHandler ==
    (call.fn = "GET" /\ call.state = "returned" /\ call.path = "/api/health") =>
        /\ call.result.handler = "health"
        /\ call.result.status = 200
        /\ call.result.json
        /\ call.result.jsonStatus = "ok"

(***************************************************************************)
(* Properties of all request handlers, checked under SpecHandlers          *)
(***************************************************************************)
Failed(r) ==
    /\ r.pc = "done"
    /\ r.serviceCalls = 1
    /\ r.body.data.kind # "completion"

\* C11: a request whose completion call ended in a non-OK response or in a
\* thrown error is answered with a failure status, and its body does not
\* carry the upstream document.
C11_UpstreamFailureIsFailure ==
    \A i \in 1..Len(requests) :
        Failed(requests[i]) =>
            /\ requests[i].status >= 400
            /\ requests[i].body.data = NoData
            /\ requests[i].body.error \notin UpstreamErrorPayloads

\* The classes of failure a handler distinguishes
FailureClass(r) ==
    IF r.serviceCalls = 0 THEN "rejected"
    ELSE IF r.upstreamStatus \in UpstreamErrorStatuses /\ r.status = r.upstreamStatus
    THEN "upstream" ELSE "thrown"

\* C12: the body of a failure response is a constant of the failure class:
\* it has no details taken from the upstream error document or from the
\* caught error, and two failures of one class on one endpoint have the
\* same body.
C12_FailureBodyIsConstant ==
    \A i, j \in 1..Len(requests) :
        ( /\ requests[i].pc = "done" /\ requests[i].status >= 400
          /\ requests[j].pc = "done" /\ requests[j].status >= 400 )
        => /\ requests[i].body.details = ""
           /\ requests[i].body.data = NoData
           /\ ( /\ requests[i].ep = requests[j].ep
                /\ requests[i].status = requests[j].status
                /\ FailureClass(requests[i]) = FailureClass(requests[j]) )
              => requests[i].body = requests[j].body

\* C25: the handler of api/index.js answers a request whose prompt is
\* missing, not a string or empty with a validation error, and issues no
\* completion-service call for it.
C25_ApiRejectsInvalidPrompt ==
    app = "api" =>
        \A i \in 1..Len(requests) :
            BadPrompt(requests[i].prompt) =>
                /\ requests[i].pc = "done"
                /\ requests[i].status = 400
                /\ requests[i].serviceCalls = 0

(***************************************************************************)
(* Properties of buildPrompt, checked under SpecPrompt                     *)
(***************************************************************************)
\* What a piece stands for once the placeholders are replaced: the value
\* supplied for its name, nothing when no value is supplied, or the text
SuppliedValue(name) ==
    IF name = KeyData THEN ToStringJS(call.data)
    ELSE IF name = KeyUserQuery THEN ToStringJS(call.query)
    ELSE IF name \in DOMAIN PromptExtras THEN ToStringJS(PromptExtras[name])
    ELSE <<>>

ExpandPiece(p) == IF p.kind = "text" THEN p.name ELSE SuppliedValue(p.name)

RECURSIVE Expand(_)
Expand(ps) == IF ps = <<>> THEN <<>> ELSE ExpandPiece(Head(ps)) \o Expand(Tail(ps))

\* The text of a template forms no placeholder of its own: no "{" is
\* followed by another "{" or by a placeholder
PlainText(ps) ==
    \A i \in 1..(Len(ps) - 1) :
        (ps[i].kind = "text" /\ ps[i].name = <<"{">>) =>
            (ps[i + 1].kind = "text" /\ ps[i + 1].name # <<"{">>)

\* C15: buildPrompt returns, for every template, and the result is the
\* template with each placeholder replaced by the value supplied for its
\* trimmed name, or by nothing when there is none, and with the text around
\* the placeholders as it was.
C15_PlaceholdersReplaced ==
    call.fn = "buildPrompt" =>
        /\ call.state \in {"called", "returned"}
        /\ (call.state = "returned" /\ PlainText(call.pieces))
               => call.result = Expand(call.pieces)

\* C15 witness: a template with text, a padded {{ userQuery }}, an unknown
\* {{k}} and a {{chunkIndex}} has been built.
C15_Witness ==
    /\ call.fn = "buildPrompt"
    /\ call.state = "returned"
    /\ call.pieces = << TextPiece("x"), Placeholder(KeyUserQuery, 1),
                        Placeholder(<<"k">>, 0), Placeholder(KeyChunkIndex, 0) >>
    /\ call.query = Str(<<"q", "?">>)
    /\ call.result = <<"x", "q", "?", "1", "2">>

\* A text in which some placeholder pattern {{...}} occurs
HoldsPlaceholder(s) == \E i \in 1..Len(s) : MatchAt(s, i) # 0

\* C29: buildPrompt substitutes in a single pass: a substituted value that
\* itself holds a placeholder {{name}} appears verbatim in the result, at
\* the place of the placeholder it replaces, and is not expanded.
C29_SinglePass ==
    (call.fn = "buildPrompt" /\ call.state = "returned" /\ PlainText(call.pieces)) =>
        /\ Len(call.result) = Len(Expand(call.pieces))
        /\ \A k \in 1..Len(call.pieces) :
               LET value == ExpandPiece(call.pieces[k])
                   offset == Len(Expand(SubSeq(call.pieces, 1, k - 1)))
               IN  (call.pieces[k].kind = "placeholder" /\ HoldsPlaceholder(value))
                       => SubSeq(call.result, offset + 1, offset + Len(value)) = value

\* C29 witness: the question {{data}} was put in place of {{ userQuery }} and
\* stands verbatim before the data summary D.
C29_Witness ==
    /\ call.fn = "buildPrompt"
    /\ call.state = "returned"
    /\ call.pieces = << Placeholder(KeyUserQuery, 1), TextPiece("x"),
                        Placeholder(KeyData, 0) >>
    /\ call.query = Str(<<"{", "{">> \o KeyData \o <<"}", "}">>)
    /\ call.data = Str(<<"D">>)
    /\ call.result = <<"{", "{">> \o KeyData \o <<"}", "}", "x", "D">>

(***************************************************************************)
(* Properties of classify, checked under SpecClassify                      *)
(***************************************************************************)
ScoreOf(k) == Score(call.queryText, Categories[k])
ResultIndex == CHOOSE k \in 1..Len(Categories) : Categories[k] = call.result
KeywordsMatched ==
    { keyword \in UNION { KeywordsOf(Categories[k]) : k \in 1..Len(Categories) } :
          Occurrences(ToLowerCase(call.queryText), keyword) # {} }

\* C17: classify returns a category of the highest score over the
\* lower-cased query; of several such, the first in the order aggressive,
\* dwell, efficiency, general; generalInfo when no keyword occurs; and
\* dwellTime when "wait" is the only keyword that occurs.
C17_ClassifyHighestScore ==
    (call.fn = "classify" /\ call.state = "returned") =>
        /\ call.result \in { Categories[k] : k \in 1..Len(Categories) }
        /\ (\A k \in 1..Len(Categories) : ScoreOf(k) = 0)
               => call.result = "generalInfo"
        /\ (\E k \in 1..Len(Categories) : ScoreOf(k) > 0)
               => /\ \A k \in 1..Len(Categories) : ScoreOf(k) <= ScoreOf(ResultIndex)
                  /\ \A k \in 1..(ResultIndex - 1) : ScoreOf(k) < ScoreOf(ResultIndex)
        /\ KeywordsMatched = { <<"w", "a", "i", "t">> } => call.result = "dwellTime"

\* C17 witness: "harsh Wait Wait" scored dwell 2 against aggressive 1 and
\* was classified dwellTime.
C17_Witness ==
    /\ call.fn = "classify"
    /\ call.state = "returned"
    /\ call.queryText = <<"h", "a", "r", "s", "h", " ", "W", "a", "i", "t", " ",
                          "W", "a", "i", "t">>
    /\ ScoreOf(1) = 1
    /\ ScoreOf(2) = 2
    /\ call.result = "dwellTime"

(***************************************************************************)
(* Properties of computeHotspots, checked under SpecHotspots               *)
(***************************************************************************)
\* The aggressive or very aggressive events of a cluster, and the sum of
\* their instability scores: averageInstability * eventCount
AggressiveOf(c) ==
    { i \in 1..Len(call.events) :
         /\ call.events[i].clusterId = c
         /\ call.events[i].behavior \in {"Aggressive", "Very Aggressive"} }
PriorityOf(c) == SumScores(call.events, AggressiveOf(c))
Reported == { call.result[k].clusterId : k \in 1..Len(call.result) }

\* C18: computeHotspots returns at most 5 hotspots; each is a cluster of
\* the aggressive and very aggressive events that carry its clusterId; they
\* are ordered by priorityScore descending, ties by clusterId ascending; and
\* a cluster left out ranks behind every hotspot returned.
C18_TopFiveHotspots ==
    (call.fn = "computeHotspots" /\ call.state = "returned") =>
        /\ Len(call.result) <= 5
        /\ \A k \in 1..Len(call.result) :
               LET h == call.result[k] IN
               /\ h.clusterId # NoCluster
               /\ h.eventCount = Cardinality(AggressiveOf(h.clusterId))
               /\ h.eventCount > 0
               /\ h.priorityScore = PriorityOf(h.clusterId)
        /\ \A k \in 1..(Len(call.result) - 1) :
               LET a == call.result[k]
                   b == call.result[k + 1]
               IN  \/ a.priorityScore > b.priorityScore
                   \/ a.priorityScore = b.priorityScore /\ a.clusterId < b.clusterId
        /\ \A c \in 1..MaxClusters :
               (AggressiveOf(c) # {} /\ c \notin Reported) =>
                   /\ Len(call.result) = 5
                   /\ \A k \in 1..5 :
                          \/ call.result[k].priorityScore > PriorityOf(c)
                          \/ /\ call.result[k].priorityScore = PriorityOf(c)
                             /\ call.result[k].clusterId < c

\* C18 witness: six clusters qualified, five were returned, two of them tied
\* on priorityScore and in clusterId order, and cluster 1, which also has a
\* calm event, was left out.
C18_Witness ==
    /\ call.fn = "computeHotspots"
    /\ call.state = "returned"
    /\ \A c \in 1..6 : AggressiveOf(c) # {}
    /\ Len(call.result) = 5
    /\ 1 \notin Reported
    /\ \E k \in 1..4 :
          /\ call.result[k].priorityScore = call.result[k + 1].priorityScore
          /\ call.result[k].eventCount = 2
          /\ call.result[k + 1].eventCount = 1

(***************************************************************************)
(* Properties of computeDwellIndicators, checked under SpecDwell           *)
(***************************************************************************)
\* The pairs of input events that are consecutive in timestamp order
ConsecutivePairs ==
    { p \in (1..Len(call.events)) \X (1..Len(call.events)) :
         /\ call.events[p[1]].timestamp < call.events[p[2]].timestamp
         /\ \A k \in 1..Len(call.events) :
                \/ call.events[k].timestamp <= call.events[p[1]].timestamp
                \/ call.events[k].timestamp >= call.events[p[2]].timestamp }
GapOf(p) == call.events[p[2]].timestamp - call.events[p[1]].timestamp
LongGaps == { p \in ConsecutivePairs : GapOf(p) >= 120000 }

\* C19: whatever the order of the input, the result has one DwellEvent for
\* each timestamp-consecutive pair whose gap is at least 120000 ms, and no
\* other; its durationMs is the gap and its postDwellBehavior the behavior
\* of the event after the gap; events 30 seconds apart give none.
C19_OneDwellPerLongGap ==
    (call.fn = "computeDwellIndicators" /\ call.state = "returned") =>
        /\ Len(call.result) = Cardinality(LongGaps)
        /\ \A p \in LongGaps : \E k \in 1..Len(call.result) :
               /\ call.result[k].startTimestamp = call.events[p[1]].timestamp
               /\ call.result[k].durationMs = GapOf(p)
               /\ call.result[k].postDwellBehavior = call.events[p[2]].behavior
        /\ \A k \in 1..Len(call.result) : call.result[k].durationMs >= 120000
        /\ (\A p \in ConsecutivePairs : GapOf(p) = 30000) => call.result = << >>

\* C19 witness: events given out of order, with gaps of 119999 ms, exactly
\* 120000 ms and 8820000 ms: one DwellEvent for the 120000 ms gap and one
\* for the long gap after it.
C19_Witness ==
    /\ call.fn = "computeDwellIndicators"
    /\ call.state = "returned"
    /\ call.events = << TimedEvent(9000000, "Aggressive"), TimedEvent(60000, "Calm"),
                        TimedEvent(180000, "Calm") >>
    /\ call.result = << [startTimestamp |-> 60000, durationMs |-> 120000,
                         postDwellBehavior |-> "Calm"],
                        [startTimestamp |-> 180000, durationMs |-> 8820000,
                         postDwellBehavior |-> "Aggressive"] >>

(***************************************************************************)
(* Properties of computeRouteEfficiency, checked under SpecRoute           *)
(***************************************************************************)
\* C20: with fewer than two events the result is the insufficient-data
\* signal; with two or more the efficiencyRatio is a number (its denominator
\* is not zero), lies between 0 and 1, equals straight-line / traveled when
\* the route moved, and is 1 when both distances are zero.
C20_RouteEfficiencyWellDefined ==
    (call.fn = "computeRouteEfficiency" /\ call.state = "returned") =>
        LET s == call.result
            ratio == s.efficiencyRatio
        IN  /\ Len(call.events) < 2 => s.status = "insufficient-data"
            /\ Len(call.events) >= 2 =>
                   /\ s.status = "ok"
                   /\ ratio.den > 0
                   /\ 0 <= ratio.num
                   /\ ratio.num <= ratio.den
                   /\ s.traveledDistance > 0 =>
                          ratio.num * s.traveledDistance
                              = s.straightLineDistance * ratio.den
                   /\ (s.traveledDistance = 0 /\ s.straightLineDistance = 0) =>
                          ratio.num = ratio.den

\* C20 witness: a stationary route of three events got the ratio 1, by
\* convention.
C20_Witness ==
    /\ call.fn = "computeRouteEfficiency"
    /\ call.state = "returned"
    /\ call.events = << [lat |-> 2], [lat |-> 2], [lat |-> 2] >>
    /\ call.result.status = "ok"
    /\ call.result.traveledDistance = 0
    /\ call.result.efficiencyRatio = [num |-> 1, den |-> 1]

(***************************************************************************)
(* Properties of resolveLocation, checked under SpecLocation               *)
(***************************************************************************)
\* The landmarks of a result, primary first
ResultLandmarks(result) ==
    IF result.description = FallbackDescription THEN << >>
    ELSE <<result.near>> \o result.closeTo

\* C21: resolveLocation includes in its result every landmark whose radius
\* contains the coordinate, the boundary included, and no other landmark,
\* each once and nearest first; and it returns the fallback description
\* exactly when the coordinate lies strictly outside every radius.
C21_AllLandmarksInRadius ==
    (call.fn = "resolveLocation" /\ call.state = "returned") =>
        LET table == call.campusLandmarks
            found == ResultLandmarks(call.result)
            distance(i) == IF table[i].lat >= call.coordinate.lat
                           THEN table[i].lat - call.coordinate.lat
                           ELSE call.coordinate.lat - table[i].lat
        IN  /\ \A i \in 1..Len(table) :
                   (distance(i) <= table[i].radius)
                       <=> (\E k \in 1..Len(found) : found[k] = i)
            /\ \A j, k \in 1..Len(found) :
                   /\ j < k => distance(found[j]) <= distance(found[k])
                   /\ j # k => found[j] # found[k]
            /\ (call.result.description = FallbackDescription)
                   <=> (\A i \in 1..Len(table) : distance(i) > table[i].radius)

\* C21 witness: the coordinate lies on the boundary of the first landmark
\* and inside the second, nearer one; both are found, the second first.
C21_Witness ==
    /\ call.fn = "resolveLocation"
    /\ call.state = "returned"
    /\ call.campusLandmarks = << Landmark(0, 2, "building"),
                                 Landmark(3, 2, "constructionZone") >>
    /\ call.coordinate = [lat |-> 2]
    /\ call.result = [ description |-> "near", near |-> 2, closeTo |-> <<1>>,
                       constructionZoneNearby |-> TRUE ]

(***************************************************************************)
(* Properties of simulateChunking, checked under SpecChunk                 *)
(***************************************************************************)
CeilDiv(a, b) == (a + b - 1) \div b
Chunked == pc = "chunked"
TheSerializedText == Slice(0, SerializedLength(busData))

\* C3: the single-request path is taken exactly when the serialized dataset
\* has at most 11000 characters; it then returns one chunk, the whole
\* serialized string; every longer dataset gives isSingleRequest = false.
C3_SingleRequestIffWithinLimit ==
    Chunked =>
        /\ chunkingResult.isSingleRequest
               <=> (SerializedLength(busData) <= RAW_SINGLE_REQUEST_CHAR_LIMIT)
        /\ chunkingResult.isSingleRequest
               => chunkingResult.chunks = <<TheSerializedText>>

\* C3 witness: a dataset of exactly 11000 serialized characters took the
\* single-request path.
C3_Witness ==
    /\ Chunked
    /\ SerializedLength(busData) = RAW_SINGLE_REQUEST_CHAR_LIMIT
    /\ chunkingResult.isSingleRequest
    /\ Len(chunkingResult.chunks) = 1

\* C4: for a dataset longer than the single-request budget the number of
\* chunks is ceil(serializedLength / (budget * 0.8)).
C4_ChunkCountIsCeiling ==
    (Chunked /\ SerializedLength(busData) > RAW_SINGLE_REQUEST_CHAR_LIMIT) =>
        Len(chunkingResult.chunks)
            = CeilDiv(SerializedLength(busData) * 10, RAW_SINGLE_REQUEST_CHAR_LIMIT * 8)

\* C4 witness: a multi-chunk dataset whose length is an exact multiple of the
\* chunk size has been split.
C4_Witness ==
    /\ Chunked
    /\ ~chunkingResult.isSingleRequest
    /\ (SerializedLength(busData) * 10) % (RAW_SINGLE_REQUEST_CHAR_LIMIT * 8) = 0
    /\ Len(chunkingResult.chunks) >= 3

\* C5: the chunks, concatenated in order, are the serialized string.
C5_ChunksConcatenateToInput ==
    Chunked => Concat(chunkingResult.chunks) = <<TheSerializedText>>

\* C5 witness: a dataset has been split into three or more chunks, the last
\* one shorter than the others.
C5_Witness ==
    /\ Chunked
    /\ Len(chunkingResult.chunks) >= 3
    /\ Length(chunkingResult.chunks[Len(chunkingResult.chunks)])
           < Length(chunkingResult.chunks[1])

\* C6: no more than 20 chunks are produced for one request.  simulateChunking
\* has no cap: the default simulated dataset of 1000 records gives 23 chunks.
C6_AtMostMaxChunks ==
    Chunked => Len(chunkingResult.chunks) <= MAX_CHUNKS

\* C27: in multi-chunk mode there are at least 2 chunks, every chunk is
\* non-empty and at most 8800 characters long (80% of 11000), and every
\* chunk but the last has exactly 8800 characters.
C27_ChunkSizes ==
    (Chunked /\ ~chunkingResult.isSingleRequest) =>
        LET chunks == chunkingResult.chunks IN
        /\ Len(chunks) >= 2
        /\ \A k \in 1..Len(chunks) :
               /\ Length(chunks[k]) > 0
               /\ Length(chunks[k]) <= 8800
               /\ 10 * Length(chunks[k]) <= 8 * 11000
               /\ k < Len(chunks) => Length(chunks[k]) = 8800

\* C27 witness: a dataset of 11193 characters was split into a chunk of
\* 8800 and a chunk of 2393 characters.
C27_Witness ==
    /\ Chunked
    /\ ~chunkingResult.isSingleRequest
    /\ chunkingResult.totalChars = 11193
    /\ Len(chunkingResult.chunks) = 2
    /\ Length(chunkingResult.chunks[1]) = 8800
    /\ Length(chunkingResult.chunks[2]) = 2393

\* C37 (checked under SpecSplitFair): simulateChunking terminates for every
\* dataset: each iteration of the split loop advances its position by the
\* chunk size, which is strictly positive, the characters left to split
\* decrease, and the call returns, with the chunks simulateChunking yields.
C37_SplitLoopTerminates ==
    /\ [][ (call.state = "loop" /\ call'.state = "loop") =>
              /\ call'.currentPos = call.currentPos + chunkSize
              /\ call'.currentPos > call.currentPos
              /\ Length(call.fullDataString) - call'.currentPos
                     < Length(call.fullDataString) - call.currentPos
              /\ Len(call'.chunks) = Len(call.chunks) + 1 ]_vars
    /\ [](call.state = "returned" =>
             call.chunks = simulateChunking(call.data).chunks)
    /\ <>(call.state = "returned")

\* C37 witness: the loop returned after 7 iterations with 7 chunks, its
\* position past the end of the text.
C37_Witness ==
    /\ call.fn = "simulateChunking"
    /\ call.state = "returned"
    /\ ~call.isSingleRequest
    /\ Len(call.chunks) = 7
    /\ call.currentPos = 7 * 8800
    /\ call.currentPos >= Length(call.fullDataString)

(***************************************************************************)
(* Properties of compressDataset and simulateChunking on the heap,         *)
(* checked under SpecHeap                                                  *)
(***************************************************************************)
\* C23: after compressDataset or simulateChunking has returned, every object
\* that existed before the call (the input array, its records, their
\* coordinates) is as it was, and what the call returns, with the records
\* of a compressed array, are objects created by the call.
C23_InputUnchanged ==
    (call.fn \in {"compressDataset", "simulateChunking"} /\ call.state = "returned") =>
        /\ Len(call.heap) >= Len(call.before)
        /\ \A id \in 1..Len(call.before) : call.heap[id] = call.before[id]
        /\ call.value > Len(call.before)
        /\ \A j \in 1..Len(call.heap[call.value].elems) :
               call.heap[call.value].elems[j] > Len(call.before)

\* C23 witness: compressDataset returned for three records; the input array
\* still lists its three records, the first still with its behavior, and
\* the compressed array lists three other objects.
C23_Witness ==
    /\ call.fn = "compressDataset"
    /\ call.state = "returned"
    /\ call.heap[call.data].elems = <<4, 5, 6>>
    /\ call.heap[4].props["behavior"] = Text("Aggressive")
    /\ call.heap[4].props["b"] = Absent
    /\ call.heap[call.value].elems = <<8, 9, 10>>
    /\ call.heap[8].props["b"] = Text("Aggressive")

(***************************************************************************)
(* Properties of the token estimators, checked under SpecEstimate          *)
(***************************************************************************)
\* r is the ceiling of num / den: the least integer not below the quotient
IsCeiling(r, num, den) == r * den >= num /\ (r - 1) * den < num

\* C26: for a text of length n, estimateTokens returns ceil(n / 4) and
\* estimateTokensLegacy ceil(n * 0.35), that is ceil(7n / 20); both return 0
\* for the empty text and for a missing text.
C26_TokenEstimates ==
    (call.fn \in {"estimateTokens", "estimateTokensLegacy"} /\ call.state = "returned") =>
        LET n == Len(call.text.str) IN
        /\ (call.text = Undefined \/ n = 0) => call.result = 0
        /\ (call.text # Undefined /\ call.fn = "estimateTokens")
               => IsCeiling(call.result, n, 4)
        /\ (call.text # Undefined /\ call.fn = "estimateTokensLegacy")
               => IsCeiling(call.result, 7 * n, 20)

\* C26 witness: estimateTokensLegacy returned 8 for a text of 21 characters
\* (21 * 0.35 = 7.35).
C26_Witness ==
    /\ call.fn = "estimateTokensLegacy"
    /\ call.state = "returned"
    /\ Len(call.text.str) = 21
    /\ call.result = 8

(***************************************************************************)
(* Properties of calculateTokensForQuestion, checked under SpecRaw         *)
(***************************************************************************)
Calculations == results.tokenCalculations
ChunkCount == Len(chunkingResult.chunks)
ChunkEntries == {k \in 1..Len(Calculations) : Calculations[k].type = "chunk"}
FinalEntries == {k \in 1..Len(Calculations) : Calculations[k].type = "final-synthesis"}
SingleEntries == {k \in 1..Len(Calculations) : Calculations[k].type = "single-request"}

\* C7: in multi-chunk mode the chunk requests are built one at a time in
\* ascending chunk order, the synthesis request only after every chunk has
\* been dealt with, and the notes enter the synthesis prompt in chunk order.
C7_ChunksInOrderThenSynthesis ==
    /\ \A k \in ChunkEntries :
           /\ Calculations[k].prompt.data = <<chunkingResult.chunks[k]>>
           /\ \A j \in 1..(k - 1) : j \in ChunkEntries
    /\ \A f \in FinalEntries :
           /\ f = ChunkCount + 1
           /\ ChunkEntries = 1..ChunkCount
           /\ Len(Calculations[f].prompt.data) = ChunkCount
           /\ \A i \in 1..ChunkCount : Calculations[f].prompt.data[i] = i

\* C7 witness: a run over four or more chunks has built its synthesis prompt.
C7_Witness ==
    /\ pc = "return"
    /\ ChunkCount >= 4
    /\ FinalEntries = {ChunkCount + 1}
    /\ Calculations[ChunkCount + 1].prompt.data[ChunkCount] = ChunkCount

\* The notes handed to the synthesis prompt lack the note of some chunk
NotesShortened(notes) ==
    \E i \in 1..ChunkCount : \A k \in 1..Len(notes) : notes[k] # i

C8_ChunkIndexMetadata ==
    /\ \A k \in ChunkEntries :
           /\ Calculations[k].prompt.extra.chunkIndex = k
           /\ Calculations[k].prompt.extra.totalChunks = ChunkCount
           /\ Calculations[k].prompt.data = <<chunkingResult.chunks[k]>>
    /\ \A k, j \in ChunkEntries :
           Calculations[k].prompt.extra.chunkIndex
               = Calculations[j].prompt.extra.chunkIndex => k = j
    /\ (pc = "return" /\ ~chunkingResult.isSingleRequest) =>
           { Calculations[k].prompt.extra.chunkIndex : k \in ChunkEntries }
               = 1..ChunkCount

\* C8 witness: the third of five chunk requests has just been built.
C8_Witness ==
    /\ pc = "forEach"
    /\ ChunkCount = 5
    /\ Len(Calculations) = 3
    /\ Calculations[3].prompt.extra.chunkIndex = 3
    /\ Calculations[3].prompt.extra.totalChunks = 5

\* The terminal state of a run, as exportResults reads it
\* (requestType: r.chunkCount ? 'multi-chunk' : 'single-request')
Terminal ==
    IF pc # "return" THEN "none"
    ELSE IF results.chunkCount # 0 THEN "Synthesis" ELSE "SingleRequest"

\* C10: every raw-mode run ends, in exactly one terminal state; on the
\* single-request path exactly one prompt and no synthesis prompt has been
\* built, on the multi-chunk path N chunk prompts followed by one synthesis
\* prompt.
C10_OneTerminalState ==
    /\ pc # "return" => ENABLED NextRaw
    /\ pc = "return" =>
          IF SerializedLength(busData) <= RAW_SINGLE_REQUEST_CHAR_LIMIT
          THEN /\ Terminal = "SingleRequest"
               /\ Len(Calculations) = 1
               /\ SingleEntries = {1}
          ELSE /\ Terminal = "Synthesis"
               /\ Len(Calculations) = ChunkCount + 1
               /\ ChunkEntries = 1..ChunkCount
               /\ FinalEntries = {ChunkCount + 1}
               /\ ChunkCount = CeilDiv(SerializedLength(busData), chunkSize)

\* C10 witness: a two-chunk run has returned with two chunk prompts and one
\* synthesis prompt.
C10_Witness ==
    /\ pc = "return"
    /\ ChunkCount = 2
    /\ Terminal = "Synthesis"
    /\ Len(Calculations) = 3

\* C28 as stated: for every chunk and every user query, the complete chunk
\* prompt is no longer than 11000 characters.
C28_ChunkPromptWithinLimit ==
    \A k \in ChunkEntries :
        ChunkPromptLength(Calculations[k].prompt) <= RAW_SINGLE_REQUEST_CHAR_LIMIT

\* C28 amended: the chunk prompt is no longer than 11000 characters for
\* every chunk whenever the user query and the decimal digits of chunkIndex
\* and totalChunks take together at most 1788 characters (11000 less the
\* 8800 of a full chunk and the 412 of the template), which covers all the
\* benchmark questions.
C28_ChunkPromptWithinLimitForShortQuery ==
    \A k \in ChunkEntries :
        LET prompt == Calculations[k].prompt IN
        /\ (prompt.userQuery + DigitChars(prompt.extra.chunkIndex)
               + DigitChars(prompt.extra.totalChunks) <= 1788)
             => ChunkPromptLength(prompt) <= 11000
        /\ question \in benchmarkQuestions
             => ChunkPromptLength(prompt) <= 11000

\* C28 witness: the prompt of chunk 10 of 11 for a question of 1784
\* characters has exactly 11000 characters.
C28_Witness ==
    \E k \in ChunkEntries :
        /\ Calculations[k].prompt.extra.chunkIndex = 10
        /\ Calculations[k].prompt.extra.totalChunks = 11
        /\ Calculations[k].prompt.userQuery = 1784
        /\ Length(Calculations[k].prompt.data[1]) = 8800
        /\ ChunkPromptLength(Calculations[k].prompt) = 11000

\* The entries of the prompts sent with data: the single-request prompt and
\* the chunk prompts
DataEntries ==
    {k \in 1..Len(Calculations) : Calculations[k].type \in {"single-request", "chunk"}}

\* C36 as stated: for each benchmark question and every dataset, the
\* single-request prompt and every chunk prompt have an estimated token
\* count of at most MAX_INPUT_TOKENS = 3000 under the modern estimator and
\* under the legacy estimator.
C36_EstimatesWithinMaxInputTokens ==
    question \in benchmarkQuestions =>
        \A k \in DataEntries :
            /\ Calculations[k].estimatedTokens <= MAX_INPUT_TOKENS
            /\ Calculations[k].estimatedTokensLegacy <= MAX_INPUT_TOKENS

\* C36 amended: for each benchmark question and every dataset, the
\* single-request prompt and every chunk prompt have an estimated token
\* count of at most 3000 under the modern estimator; under the legacy
\* estimator the count is within 3000 exactly for the prompts of at most
\* 8571 characters, which no prompt of a full chunk is.
C36_ModernEstimateWithinMaxInputTokens ==
    question \in benchmarkQuestions =>
        \A k \in DataEntries :
            /\ Calculations[k].estimatedTokens <= 3000
            /\ Calculations[k].estimatedTokensLegacy <= 3000
                   <=> Calculations[k].promptLength <= 8571
            /\ Calculations[k].dataSize = 8800
                   => Calculations[k].estimatedTokensLegacy > 3000

\* C36 witness: the prompt of the longest benchmark question with a dataset
\* of exactly 11000 characters, 11450 characters long, is estimated at 2863
\* tokens by the modern estimator and at 4008 by the legacy estimator.
C36_Witness ==
    /\ question \in benchmarkQuestions
    /\ \E k \in DataEntries :
           /\ Calculations[k].type = "single-request"
           /\ Calculations[k].dataSize = 11000
           /\ Calculations[k].promptLength = 11450
           /\ Calculations[k].estimatedTokens = 2863
           /\ Calculations[k].estimatedTokensLegacy = 4008

(***************************************************************************)
(* Properties of processRawMode, checked under SpecProcessRaw              *)
(***************************************************************************)
\* C9: in multi-chunk mode, when the completion-service call of a chunk
\* fails the request ends in Failure: no synthesis call is issued, no further
\* call at all, and no answer is returned from the notes collected so far.
C9_ChunkFailureAborts ==
    raw.failedAt = "chunk" =>
        /\ raw.state = "Failure"
        /\ raw.answer = NoAnswer
        /\ ~raw.inFlight
        /\ \A k \in 1..Len(raw.calls) : raw.calls[k].kind # "synthesis"
        /\ Len(raw.calls) = Len(raw.notes) + 1
        /\ ~ENABLED NextProcessRaw

\* C9 witness: the third chunk call failed after two chunks had been analysed.
C9_Witness ==
    /\ raw.failedAt = "chunk"
    /\ raw.state = "Failure"
    /\ Len(raw.notes) = 2
    /\ Len(raw.chunks) >= 4

====
